---- MODULE Spec2Model ----
(***************************************************************************)
(* Orchestration core of remote-claude-code: the per-session dispatch      *)
(* state machine (core/orchestrator.ts), the agent runner's callbacks      *)
(* (agents/claude.ts), the message channel (core/types.ts) and the         *)
(* session store (store/sessions.ts).                                      *)
(*                                                                         *)
(* JavaScript runs every callback to completion: one action of this model  *)
(* is one such run, from the event that starts it to the next await that   *)
(* really suspends (the agent process's exit, an empty channel).           *)
(***************************************************************************)
EXTENDS Integers, Sequences, FiniteSets, TLC

\* ---------------------------------------------------------------- bounds
\* user texts the transports send in one behaviour
MaxMsgs == 2
\* stdout lines of one agent run
MaxLines == 3
\* content blocks of one assistant or user event of the agent's stdout
MaxContent == 2
\* session-start attempts, process starts, and reset and delete commands
MaxStarts == 3
MaxBoots == 2
MaxEdits == 2
\* bytes the agent process writes in one behaviour, and bytes of one chunk
MaxBytes == 5
MaxChunk == 3
\* messages the CLI leaves unreceived in the channel while its prompt is open
MaxInbox == 6
\* stream events the agent processes of one behaviour emit in total
MaxEvents == 2
\* /reset commands in one behaviour
MaxResets == 1
\* store calls and agent runs that throw in one behaviour
MaxFaults == 1
\* /reset commands and throwing calls of one behaviour, taken together
MaxUpsets == 1
\* config.maxReviewRounds (MAX_REVIEW_ROUNDS, default 3)
MaxRounds == 2

\* ------------------------------------------------------------ static data
Sessions == {"s1", "s2"}
Threads == {"t0", "t1", "t2"}

\* Session.threadId: the routing key; thread t0 belongs to no session
ThreadOf(s) == IF s = "s1" THEN "t1" ELSE "t2"

\* Session.worktree: s1 was started with a worktree, s2 without
HasWorktree(s) == s = "s1"

\* Session.worktree of the session started with one: {repoPath, branch, worktreePath}
Worktree(s) == [repoPath |-> "/repo", branch |-> "feature", worktreePath |-> "/repo-wt"]

\* Session.projectPath: a worktree session works in its worktree (the transports
\* create it with projectPath = worktreePath), the other in its project
ProjectPath(s) == IF HasWorktree(s) THEN Worktree(s).worktreePath ELSE "/proj"

\* agentSessionId: string | null
Null == <<>>
Uuid(n) == <<"uuid", n>>
\* a session id the agent process reports on its own
AgentOwnId == <<"agent", 0>>

Markers == {"READY_FOR_REVIEW", "REVIEW_APPROVED", "REVIEW_FEEDBACK"}
\* the markers the caller of a run looks for in its result text: runAgent
\* READY_FOR_REVIEW, the pipeline REVIEW_APPROVED and REVIEW_FEEDBACK in the
\* reviewer's text and none in the coder's
MarkersRead(kind) ==
  CASE kind = "turn" -> {"READY_FOR_REVIEW"}
    [] kind = "reviewer" -> {"REVIEW_APPROVED", "REVIEW_FEEDBACK"}
    [] kind = "coder" -> {}
\* result texts of a run, each given by the markers it contains that its caller reads
ResultTexts(kind) == SUBSET MarkersRead(kind)

\* interface SessionState; exists = FALSE is "no entry in the map"
NoReview == [set |-> FALSE, round |-> 0, active |-> FALSE]
NoState == [exists |-> FALSE, running |-> FALSE, awaitingAnswer |-> FALSE,
            review |-> NoReview]

\* a cache counter that totalUsage does not hold (create and resetSession write
\* {input_tokens: 0, output_tokens: 0} only); every reader takes it as `?? 0`
Absent == -1
OrZero(x) == IF x = Absent THEN 0 ELSE x

\* TokenUsage
NoUsage == [input_tokens |-> 0, output_tokens |-> 0,
            cache_read_input_tokens |-> Absent, cache_creation_input_tokens |-> Absent]

\* Session.worktree of a session started without one (undefined)
NoWorktree == [repoPath |-> "-", branch |-> "-", worktreePath |-> "-"]

\* SessionManager.create: the record of a new session
NewSession(s) ==
  [id |-> s, threadId |-> ThreadOf(s), projectPath |-> ProjectPath(s),
   worktree |-> IF HasWorktree(s) THEN Worktree(s) ELSE NoWorktree,
   agentSessionId |-> Null, totalUsage |-> NoUsage, totalDurationMs |-> 0,
   totalTurns |-> 0]

VARIABLES
  msgCtr,         \* user texts sent so far (a text is named by its number)
  evCtr,          \* stream events emitted so far
  store,          \* SessionManager.sessions: per session its record
  sessionStates,  \* Orchestrator.sessionStates
  calls,          \* Agent.run invocations that have started and not returned
  worktreeDir,    \* the worktree directory of a session exists on disk
  watch,          \* the session whose thread is observed (any one, fixed at the start)
  out,            \* messages sent on the observed thread in the current segment
  seg,            \* what the current segment is (none, turn, reviewer, coder)
  turnOf,         \* per session: the user text whose turn was accepted last (0: none)
  busy,           \* per user text: busy notices sent in answer to it
  thrown,         \* observed session: where its current handling threw (none, turn, pipeline)
  escaped,        \* observed session: an exception left runAgent in its current handling
  resets,         \* /reset commands so far
  faults,         \* store calls and agent runs that have thrown so far
  sentTo,         \* per message a transport sent: its thread ("-": not sent yet)
  sentAs,         \* and its type
  runs,           \* observed session: the results Agent.run returned since its turn began
  removals,       \* observed session: removeWorktree calls since its turn began (deleteBranch)
  answering,      \* observed session: its current turn began while it awaited the answer
                  \* to a question the coder had asked in review
  lastOp,         \* the store method called last, on its own: its name, its id
                  \* argument, what it returned, the records before it, and the
                  \* number of such calls so far
  \* the message channel (core/types.ts)
  chan,           \* per direction: makeQueue's queue and waiter
  sentLog,        \* per direction: the items passed to send(), in order
  recvLog,        \* per direction: the receive() calls in the order issued
  delivered,      \* per direction: the items receive() calls resolved with, in order
  overlap,        \* per direction: a receive() was issued while another was pending
  \* the runner's text forwarding (agents/claude.ts)
  streamedTextLength,
  pending,        \* text blocks of the assistant message being generated
  streamPos,      \* how many of its characters were streamed as deltas
  forwarded,      \* the text passed to onText so far, concatenated
  full,           \* the agent's response so far: its final text blocks, concatenated
  msgsDone,       \* assistant messages completed
  \* one run of the agent (agents/claude.ts), followed for every verbosity at once
  proc,           \* the agent process: new, running, failing, errored, closed, rejected
  handled,        \* the stdout lines passed to handleLine so far, in order
  exitCode,       \* the code of the process's close event (Absent: none yet)
  rs,             \* per config.verbosity: the run's variables, what it sent, what it returned
  \* the agent's stdout, chunk by chunk (agents/claude.ts, claude/runner.ts)
  written,        \* the bytes the agent process has written so far
  buffer,         \* runClaude's buffer
  parsed,         \* the lines handleLine has passed to JSON.parse, in order
  closed,         \* the close event has been handled
  \* session start by the transports (channels/cli, channels/telegram, store/sessions.ts)
  up,             \* the channel the running process serves (down: no process)
  sessions,       \* SessionManager.sessions of the running process
  file,           \* sessions.json
  worktrees,      \* the worktree directories on disk
  branches,       \* branches created so far (each worktree is named after its own)
  topics,         \* forum topics created so far
  clock,          \* Date.now() of the next CLI `new` command
  uuids,          \* session ids generated so far
  boots,          \* process starts so far
  edits,          \* reset and delete commands so far
  attempts,       \* session-start attempts so far
  attempt,        \* the last of them: its kind, the step that failed, whether that
                  \* was reported, and the thread, session id and worktree it made
  \* the CLI transport's prompt loop (channels/cli)
  cliCurrent,     \* currentSession ("-": startCli has not created it yet)
  cliPast,        \* the sessions that have been currentSession
  cliInbox,       \* what the orchestrator sent and the CLI has not received yet
  cliWaiting,     \* the user text whose sendAndWait is pending (0: the prompt is open)
  cliEnded,       \* the sendAndWait that returned last: its text and the `done` it ended on
  \* the Telegram transport's streaming state of one thread (channels/telegram)
  tgStates,       \* the ThreadStreamState objects created for the thread, in order
  tgMapped,       \* threadStates.get(threadId): which of them is in the map (0: none)
  tgReceived,     \* assistant and error texts received so far (a text is named by its number)
  tgDones,        \* `done` messages received so far
  tgSent          \* the texts sent to Telegram, in order

orchVars == <<msgCtr, evCtr, store, sessionStates, calls, worktreeDir, watch,
              out, seg, turnOf, busy, thrown, escaped, resets, sentTo, sentAs,
              runs, removals, answering, faults>>
storeVars == <<lastOp>>
chanVars == <<chan, sentLog, recvLog, delivered, overlap>>
textVars == <<streamedTextLength, pending, streamPos, forwarded, full, msgsDone>>
runnerVars == <<proc, handled, exitCode, rs>>
chunkVars == <<written, buffer, parsed, closed>>
startVars == <<up, sessions, file, worktrees, branches, topics, clock, uuids, boots,
               edits, attempts, attempt>>
cliVars == <<cliCurrent, cliPast, cliInbox, cliWaiting, cliEnded>>
tgVars == <<tgStates, tgMapped, tgReceived, tgDones, tgSent>>
restVars == <<runnerVars, chunkVars, startVars, cliVars, tgVars>>
vars == <<orchVars, chanVars, textVars, storeVars, restVars>>

\* ------------------------------------------------ one agent run: its data
\* config.verbosity: undefined, or a level (core/agent.ts)
Verbosities == {Absent, 0, 1, 2}
\* `const verbosity = config.verbosity ?? 2`
Verbosity(c) == IF c = Absent THEN 2 ELSE c

AskUserQuestion == "AskUserQuestion"
ToolNames == {"Bash", "Read"}
\* session ids the agent process reports in its system and result events
ReportedIds == {Null, <<"agent", 1>>, <<"agent", 2>>}

\* `let result: ClaudeResult | null = null`
NoResult == [set |-> FALSE, sessionId |-> Null, durationMs |-> 0, numTurns |-> 0,
             input_tokens |-> 0, result |-> "-"]
\* the variables of runClaude (buffer apart) and of ClaudeAgent.run, the messages
\* the run sent, the value its promise resolved with and the value it returned
NewRun ==
  [result |-> NoResult, streamedTextLength |-> 0, lastToolName |-> "tool",
   agentSessionId |-> Null, runLastToolName |-> "tool", questionAsked |-> FALSE,
   sent |-> <<>>, threw |-> FALSE,
   resolved |-> FALSE, value |-> NoResult,
   returned |-> FALSE, rejected |-> FALSE,
   ret |-> [agentSessionId |-> Null, durationMs |-> 0, numTurns |-> 0,
            input_tokens |-> 0, questionAsked |-> FALSE, resultText |-> "-"]]

\* no session-start attempt yet
NoAttempt == [kind |-> "none", failed |-> "none", reported |-> FALSE,
              threadId |-> Null, id |-> 0, made |-> 0]

\* no sendAndWait has returned yet
NoReturn == [text |-> 0, by |-> [threadId |-> "-", message |-> "-", from |-> "-", turn |-> 0]]

MsgIds == 1..MaxMsgs

\* createMessageChannel: two queues, one per direction
Dirs == {"aToB", "bToA"}
\* makeQueue: `const queue: Item[] = []; let waiter = null` (0: null, k: the resolve
\* function of the k-th receive() of that direction)
EmptyQueue == [queue |-> <<>>, waiter |-> 0]

Init ==
  /\ msgCtr = 0
  /\ evCtr = 0
  /\ store = [s \in Sessions |-> NewSession(s)]
  /\ sessionStates = [s \in Sessions |-> NoState]
  /\ calls = {}
  /\ worktreeDir = [s \in Sessions |-> HasWorktree(s)]
  /\ watch \in Sessions
  /\ out = <<>>
  /\ seg = "none"
  /\ turnOf = [s \in Sessions |-> 0]
  /\ busy = [m \in MsgIds |-> 0]
  /\ thrown = "none"
  /\ escaped = FALSE
  /\ resets = 0
  /\ faults = 0
  /\ sentTo = [m \in MsgIds |-> "-"]
  /\ sentAs = [m \in MsgIds |-> "-"]
  /\ runs = <<>>
  /\ removals = <<>>
  /\ answering = FALSE
  /\ lastOp = [op |-> "none", id |-> "-", ret |-> FALSE, before |-> store, n |-> 0]
  /\ chan = [d \in Dirs |-> EmptyQueue]
  /\ sentLog = [d \in Dirs |-> <<>>]
  /\ recvLog = [d \in Dirs |-> <<>>]
  /\ delivered = [d \in Dirs |-> <<>>]
  /\ overlap = [d \in Dirs |-> FALSE]
  /\ streamedTextLength = 0
  /\ pending = <<>>
  /\ streamPos = 0
  /\ forwarded = <<>>
  /\ full = <<>>
  /\ msgsDone = 0
  /\ proc = "new"
  /\ handled = <<>>
  /\ exitCode = Absent
  /\ rs = [c \in Verbosities |-> NewRun]
  /\ written = <<>>
  /\ buffer = <<>>
  /\ parsed = <<>>
  /\ closed = FALSE
  /\ up = "down"
  /\ sessions = <<>>
  /\ file = <<>>
  /\ worktrees = {}
  /\ branches = 0
  /\ topics = 0
  /\ clock = 1
  /\ uuids = 0
  /\ boots = 0
  /\ edits = 0
  /\ attempts = 0
  /\ attempt = NoAttempt
  /\ cliCurrent = "-"
  /\ cliPast = {}
  /\ cliInbox = <<>>
  /\ cliWaiting = 0
  /\ cliEnded = NoReturn
  /\ tgStates = <<>>
  /\ tgMapped = 0
  /\ tgReceived = 0
  /\ tgDones = 0
  /\ tgSent = <<>>

\* ------------------------------------------------------- session store
\* SessionManager.getByThread: the session routed to by a thread, if any
HasSession(t) == \E s \in Sessions : ThreadOf(s) = t
SessionOfThread(t) == CHOOSE s \in Sessions : ThreadOf(s) = t

\* faulty variant of addUsage: the totals are left as they were
AddNothing(sess, usage, durationMs, turns) == sess

\* SessionManager.addUsage, on the record found (its save() may throw afterwards)
AddUsage(sess, usage, durationMs, turns) ==
  [sess EXCEPT
     !.totalUsage = [input_tokens |-> @.input_tokens + usage.input_tokens,
                     output_tokens |-> @.output_tokens + usage.output_tokens,
                     cache_read_input_tokens |->
                       OrZero(@.cache_read_input_tokens)
                       + OrZero(usage.cache_read_input_tokens),
                     cache_creation_input_tokens |->
                       OrZero(@.cache_creation_input_tokens)
                       + OrZero(usage.cache_creation_input_tokens)],
     !.totalDurationMs = @ + durationMs,
     !.totalTurns = @ + turns]

\* faulty variant of updateAgentSessionId: the id is not written to the record
UpdateNothing(sess, id) == sess

\* SessionManager.updateAgentSessionId
UpdateAgentSessionId(sess, id) == [sess EXCEPT !.agentSessionId = id]

\* faulty variant of resetSession: the usage counters are left as they were
ResetIdOnly(sess) == [sess EXCEPT !.agentSessionId = Null]

\* SessionManager.resetSession, on the record found
ResetRecord(sess) ==
  [sess EXCEPT !.agentSessionId = Null, !.totalUsage = NoUsage,
               !.totalDurationMs = 0, !.totalTurns = 0]

\* removeWorktree(repoPath, worktreePath, branch, deleteBranch): the directory is gone
RemoveWorktree(present) == FALSE

\* AgentResult.usage / durationMs of a run: what the result event reported, or
\* ClaudeAgent.run's defaults when there was none
AgentUsage(res) ==
  IF res.has
  THEN [input_tokens |-> 1, output_tokens |-> 2,
        cache_read_input_tokens |-> 3, cache_creation_input_tokens |-> 4]
  ELSE NoUsage
AgentDuration(res) == IF res.has THEN 5 ELSE 0

\* sessionManager.addUsage(sessionId, result.usage, result.durationMs, result.numTurns)
AddResult(sess, res) == AddUsage(sess, AgentUsage(res), AgentDuration(res), res.numTurns)

\* ------------------------------------------------------- session state
\* faulty variant of the guard: it reads awaitingAnswer instead of running
IsAwaiting(s) == sessionStates[s].exists /\ sessionStates[s].awaitingAnswer

\* faulty variant of the guard: a text is turned away while any session is running
AnyRunning(s) == \E x \in Sessions : sessionStates[x].exists /\ sessionStates[x].running

\* handleMessage's guard: this.sessionStates.get(session.id)?.running
IsRunning(s) == sessionStates[s].exists /\ sessionStates[s].running

\* faulty variant of the entry runAgent sets: the session is not marked running
FreshNotRunning == [exists |-> TRUE, running |-> FALSE, awaitingAnswer |-> FALSE,
                    review |-> NoReview]

\* runAgent: this.sessionStates.set(sessionId, {running: true, awaitingAnswer: false})
FreshRunning == [exists |-> TRUE, running |-> TRUE, awaitingAnswer |-> FALSE,
                 review |-> NoReview]

\* faulty variant of the assignments to state.running: it is only ever cleared
SetRunningOff(st, b) == IF st.exists THEN [st EXCEPT !.running = FALSE] ELSE st

\* `state.running = true` / `state.running = false`, on the entry found
SetRunning(st, b) == IF st.exists THEN [st EXCEPT !.running = b] ELSE st

\* runAgent's finally block
RunAgentFinally(st) ==
  IF ~st.exists THEN st
  ELSE IF ~st.awaitingAnswer /\ ~(st.review.set /\ st.review.active)
       THEN NoState
       ELSE [st EXCEPT !.running = FALSE]

\* faulty variant of the finally block: the review state is left as it was
PipelineFinallySkipped(st) == st

\* runReviewPipeline's finally block
PipelineFinally(st) ==
  IF ~st.exists THEN st
  ELSE IF ~st.awaitingAnswer
       THEN NoState
       ELSE [st EXCEPT !.running = FALSE,
                       !.review = IF @.set THEN [@ EXCEPT !.active = FALSE] ELSE @]

\* ------------------------------------------- the part of the world a turn touches
\* st: the session's SessionState, sess: its store record, log/sg: its thread's
\* segment, wt: its worktree directory, new: the Agent.run requests just issued
World(s) ==
  [st |-> sessionStates[s], sess |-> store[s], log |-> out, sg |-> seg,
   wt |-> worktreeDir[s], thrown |-> thrown, esc |-> escaped, new |-> <<>>,
   runs |-> runs, rm |-> removals, ans |-> answering]

\* endpoint.send(threadId, message), for each message of msgs in order
SendW(w, msgs) == [w EXCEPT !.log = @ \o msgs]

Throw(w, where) == [w EXCEPT !.thrown = IF @ = "none" THEN where ELSE @]

\* AgentRequest (core/agent.ts)
Request(s, kind, round, prompt, instr, asid, nsid, cwd) ==
  [sid |-> s, thread |-> ThreadOf(s), kind |-> kind, round |-> round,
   prompt |-> prompt, instr |-> instr, agentSessionId |-> asid,
   newSessionId |-> nsid, cwd |-> cwd]

\* reviewRequest: a fresh agent session, run in the original repository
ReviewRequest(s, round, sess) ==
  Request(s, "reviewer", round, 0, FALSE, Null, Null, sess.worktree.repoPath)

\* faulty variant of coderRequest: the coder is started afresh, in the repository
CoderRequestFresh(s, round, sess) ==
  Request(s, "coder", round, 0, FALSE, Null, Null, Worktree(s).repoPath)

\* coderRequest: resumes the coding session, in the session's project path
CoderRequest(s, round, sess) ==
  Request(s, "coder", round, 0, FALSE, sess.agentSessionId, Null, sess.projectPath)

\* buildArgs: "--resume <id>" is on the command line iff request.agentSessionId
ResumeFlag(req) == req.agentSessionId # Null

\* ------------------------------------------------------ review pipeline
\* The store calls that may throw (persistence I/O), named by their line in
\* core/orchestrator.ts; F is the set of those that throw in the step at hand.
DispatchSites == {152, 168}
TurnSites == {191, 205, 217, 238}
ReviewerSites == {329, 479, 238}
CoderSites == {415, 425, 479, 238}
ContSites(kind) ==
  CASE kind = "turn" -> TurnSites
    [] kind = "reviewer" -> ReviewerSites
    [] kind = "coder" -> CoderSites
\* a call may still throw in this behaviour, `used` of them throwing in the step at hand
MayThrow(used) ==
  faults + used < MaxFaults /\ faults + used + resets < MaxUpsets
\* no store call throws, or one of them does
FaultChoices(sites, used) ==
  {{}} \cup (IF MayThrow(used) THEN {{x} : x \in sites} ELSE {})

\* runReviewPipeline's catch and finally
PipelineEnd(w, exc, F) ==
  LET w1 == IF exc
            THEN SendW(Throw(w, "pipeline"), <<"notice:pipeline_error">>)
            ELSE w
      w2 == [w1 EXCEPT !.st = PipelineFinally(@)]
  IN [w |-> IF 479 \in F THEN Throw(w2, "pipeline") ELSE w2,
      exc |-> 479 \in F, susp |-> FALSE]

\* the top of the for loop, up to `await this.agent.run(reviewRequest)`; the loop is
\* left when the rounds are used up or the session has no worktree (any more)
PipelineLoop(w, s, round, F) ==
  IF round > MaxRounds \/ w.sess.worktree = NoWorktree
  THEN PipelineEnd(w, FALSE, F)
  ELSE [w |-> [w EXCEPT !.st = SetRunning([@ EXCEPT !.review.round = round], TRUE),
                        !.log = <<"notice:round">>,
                        !.sg = "reviewer",
                        !.new = <<ReviewRequest(s, round, w.sess)>>],
        exc |-> FALSE, susp |-> TRUE]

\* faulty variant of the approved branch: the session's worktree descriptor is
\* cleared along with the directory
ApprovedForgetsWorktree(w) ==
  [SendW(w, <<"notice:merged">>) EXCEPT !.wt = RemoveWorktree(@),
                                         !.rm = Append(@, FALSE),
                                         !.sess.worktree = NoWorktree]

\* faulty variant of the approved branch: the worktree is left in place
ApprovedKeepsWorktree(w) == SendW(w, <<"notice:merged">>)

\* `if (approved)`: the success notice, then removeWorktree(..., false)
Approved(w) ==
  [SendW(w, <<"notice:merged">>) EXCEPT !.wt = RemoveWorktree(@),
                                         !.rm = Append(@, FALSE)]

\* faulty variant of the round test: feedback is sent to the coder on the last round too
MayRetryAlways(round) == TRUE

\* `round < maxRounds`: feedback goes to the coder only if a round is left
MayRetry(round) == round < MaxRounds

\* after the reviewer's Agent.run returned res
ReviewerCont(w, c, res, F) ==
  LET w1 == [w EXCEPT !.st = SetRunning(@, FALSE),
                      !.sess = AddResult(@, res)]
  IN IF 329 \in F THEN PipelineEnd(w1, TRUE, F)
     ELSE IF "REVIEW_APPROVED" \in res.text
     THEN PipelineEnd(Approved(w1), FALSE, F)
     ELSE IF "REVIEW_FEEDBACK" \in res.text /\ MayRetry(c.req.round)
     THEN [w |-> [w1 EXCEPT !.st = SetRunning(@, TRUE),
                            !.log = <<"notice:feedback">>,
                            !.sg = "coder",
                            !.new = <<CoderRequest(c.req.sid, c.req.round, w1.sess)>>],
           exc |-> FALSE, susp |-> TRUE]
     ELSE IF c.req.round >= MaxRounds
     THEN PipelineEnd(SendW(w1, <<"notice:max_rounds">>), FALSE, F)
     ELSE PipelineLoop(w1, c.req.sid, c.req.round + 1, F)

\* faulty variant of the pause: awaitingAnswer is not set
AwaitNothing(st) == st

\* `if (coderResult.questionAsked) { state.awaitingAnswer = true; return; }`
AwaitAnswer(st) == IF st.exists THEN [st EXCEPT !.awaitingAnswer = TRUE] ELSE st

\* after the coder's Agent.run returned res
CoderCont(w, c, res, F) ==
  LET w1 == [w EXCEPT !.st = SetRunning(@, FALSE),
                      !.sess = AddResult(@, res)]
      changed == res.sid # Null /\ res.sid # w1.sess.agentSessionId
      w2 == IF changed
            THEN [w1 EXCEPT !.sess = UpdateAgentSessionId(@, res.sid)]
            ELSE w1
  IN IF 415 \in F THEN PipelineEnd(w1, TRUE, F)
     ELSE IF changed /\ 425 \in F THEN PipelineEnd(w2, TRUE, F)
     ELSE IF c.questionAsked
     THEN PipelineEnd([w2 EXCEPT !.st = AwaitAnswer(@)], FALSE, F)
     ELSE PipelineLoop(w2, c.req.sid, c.req.round + 1, F)

\* faulty variant of runReviewPipeline: the pipeline started by the answer to a
\* question the coder asked in review does not begin at round 1
RunReviewPipelineOn(w, s, F) ==
  LET st0 == IF w.st.exists THEN w.st ELSE [NoState EXCEPT !.exists = TRUE]
      st1 == [st0 EXCEPT !.review = [set |-> TRUE, round |-> 0, active |-> TRUE]]
  IN PipelineLoop([w EXCEPT !.st = st1], s, IF w.ans THEN 2 ELSE 1, F)

\* runReviewPipeline, from its entry to its first await
RunReviewPipeline(w, s, F) ==
  LET st0 == IF w.st.exists THEN w.st ELSE [NoState EXCEPT !.exists = TRUE]
      st1 == [st0 EXCEPT !.review = [set |-> TRUE, round |-> 0, active |-> TRUE]]
  IN PipelineLoop([w EXCEPT !.st = st1], s, 1, F)

\* ------------------------------------------------------------- runAgent
\* faulty variant of the test: the session's worktree is not looked at
ReadyWithoutWorktree(s, text) == "READY_FOR_REVIEW" \in text

\* faulty variant of the test: the result text is not looked at
ReadyWithoutMarker(s, text) == store[s].worktree # NoWorktree

\* `session.worktree && resultText.includes("READY_FOR_REVIEW")`
ReadyForReview(s, text) == store[s].worktree # NoWorktree /\ "READY_FOR_REVIEW" \in text

\* faulty variant of the question test: the ready marker is looked for first
TurnAskedUnlessReady(c, res) == c.questionAsked /\ ~ReadyForReview(c.req.sid, res.text)

\* `if (result.questionAsked)`, which runAgent tests before it reads resultText
TurnAsked(c, res) == c.questionAsked

\* faulty variant of what runAgent persists: the id the agent reported is written too
PersistWithId(sess, res) == UpdateAgentSessionId(AddResult(sess, res), res.sid)

\* what runAgent writes to the session after the run: its usage, and not the id the
\* agent reported (`agentSessionId is already persisted before agent.run()`)
Persist(sess, res) == AddResult(sess, res)

\* the try block after `await this.agent.run(request)` returned res
TurnCont(w, c, res, F) ==
  LET w1 == [w EXCEPT !.sess = Persist(@, res)]
  IN IF 191 \in F THEN [w |-> w1, exc |-> TRUE, susp |-> FALSE]
     ELSE IF TurnAsked(c, res)
     THEN [w |-> [w1 EXCEPT !.st = IF @.exists
                                   THEN [@ EXCEPT !.awaitingAnswer = TRUE,
                                                  !.running = FALSE]
                                   ELSE @],
           exc |-> 205 \in F, susp |-> FALSE]
     ELSE IF ReadyForReview(c.req.sid, res.text)
     THEN LET w2 == [w1 EXCEPT !.st = SetRunning(@, FALSE)]
          IN IF 217 \in F THEN [w |-> w2, exc |-> TRUE, susp |-> FALSE]
             ELSE RunReviewPipeline(w2, c.req.sid, F)
     ELSE [w |-> w1, exc |-> FALSE, susp |-> FALSE]

\* runAgent's catch and finally, reached once the try block is left
RunAgentEpilogue(r, F) ==
  IF r.susp THEN r.w
  ELSE LET w1 == IF r.exc
                 THEN SendW(Throw(r.w, "turn"), <<"done", "notice:error">>)
                 ELSE r.w
           w2 == [w1 EXCEPT !.st = RunAgentFinally(@)]
       IN IF 238 \in F THEN [Throw(w2, "turn") EXCEPT !.esc = TRUE] ELSE w2

\* --------------------------------------------------------- agent runner
\* ClaudeAgent.run's callbacks: the message each kind of stream event sends
EventKinds == {"text", "question"}
EventMessage(e) ==
  CASE e = "text" -> "assistant"
    [] e = "question" -> "question"

\* the event streams of one process
EventSeqs(max) == UNION {[1..n -> EventKinds] : n \in 0..max}

\* onText and onQuestion, called for each event in order
EventMessages(evs) == [i \in DOMAIN evs |-> EventMessage(evs[i])]

\* onQuestion: questionAsked = true
QuestionAsked(evs) == \E i \in DOMAIN evs : evs[i] = "question"

\* what the process leaves behind at exit: has = a terminal result event was seen,
\* err = nonzero exit code without one, text = the markers in the result text, sid = the
\* session id the process reported (Null: none; only the pipeline reads it, of a coder)
Results(req) ==
  LET sids == IF req.kind = "coder" THEN {Null, AgentOwnId, req.agentSessionId}
              ELSE {AgentOwnId}
  IN [has : {TRUE}, err : {FALSE}, text : ResultTexts(req.kind), numTurns : {1},
      sid : sids]
     \cup [has : {FALSE}, err : BOOLEAN, text : {{}}, numTurns : {0}, sid : sids]

\* faulty variant of the end of ClaudeAgent.run: the completion indicator is sent
\* whether or not a question was asked
RunTailAlways(asked, res) ==
  (IF res.err THEN <<"text:error">> ELSE <<>>) \o <<"assistant:indicator", "done">>

\* proc.on("close") and the end of ClaudeAgent.run
RunTail(asked, res) ==
  (IF res.err THEN <<"text:error">> ELSE <<>>)
  \o (IF ~asked THEN <<"assistant:indicator">> ELSE <<>>)
  \o <<"done">>

\* what the orchestrator reads of an AgentResult: questionAsked (of a turn or a coder
\* run; a reviewer's is read nowhere), the markers it looks for in resultText, and
\* numTurns, usage and durationMs
Verdict(kind, text) ==
  CASE kind = "turn" -> IF "READY_FOR_REVIEW" \in text THEN "ready" ELSE "plain"
    [] kind = "reviewer" -> IF "REVIEW_APPROVED" \in text THEN "approved"
                            ELSE IF "REVIEW_FEEDBACK" \in text THEN "feedback"
                            ELSE "none"
    [] kind = "coder" -> "-"
RunRecord(kind, asked, res) ==
  [kind |-> kind, questionAsked |-> asked /\ kind # "reviewer",
   verdict |-> Verdict(kind, res.text), numTurns |-> res.numTurns,
   usage |-> AgentUsage(res), durationMs |-> AgentDuration(res)]
\* the record of a run that threw
ThrewRecord(kind) ==
  [kind |-> kind, questionAsked |-> FALSE, verdict |-> "threw", numTurns |-> 0,
   usage |-> NoUsage, durationMs |-> 0]

\* -------------------------------------------------------------- actions
\* a name for a new invocation: the least number no invocation in flight bears
FreeCid(cs) == CHOOSE n \in 1..(Cardinality(cs) + 1) :
                 /\ \A c \in cs : c.cid # n
                 /\ \A k \in 1..(n - 1) : \E c \in cs : c.cid = k

Commit(s, w, gone) ==
  /\ sessionStates' = [sessionStates EXCEPT ![s] = w.st]
  /\ store' = [store EXCEPT ![s] = w.sess]
  /\ worktreeDir' = [worktreeDir EXCEPT ![s] = w.wt]
  /\ IF s = watch
     THEN /\ out' = w.log /\ seg' = w.sg /\ thrown' = w.thrown /\ escaped' = w.esc
          /\ runs' = w.runs /\ removals' = w.rm /\ answering' = w.ans
     ELSE UNCHANGED <<out, seg, thrown, escaped, runs, removals, answering>>
  /\ UNCHANGED watch
  /\ calls' = (calls \ gone) \cup
              {[cid |-> FreeCid(calls \ gone), req |-> w.new[i],
                questionAsked |-> FALSE] : i \in DOMAIN w.new}

\* runAgent from its entry to `await this.agent.run(request)`. crypto.randomUUID()
\* never repeats: the id generated in the turn of user text m is Uuid(m).
RunAgentStart(s, m, F) ==
  LET w0 == [World(s) EXCEPT !.st = FreshRunning, !.log = <<>>, !.sg = "turn",
                             !.thrown = "none", !.esc = FALSE,
                             !.runs = <<>>, !.rm = <<>>,
                             !.ans = sessionStates[s].exists
                                     /\ sessionStates[s].awaitingAnswer
                                     /\ sessionStates[s].review.set]
      first == w0.sess.agentSessionId = Null
      newId == Uuid(m)
      w1 == IF first
            THEN [w0 EXCEPT !.sess = UpdateAgentSessionId(@, newId)]
            ELSE w0
      req == Request(s, "turn", 0, m, w0.sess.worktree # NoWorktree /\ first,
                     w1.sess.agentSessionId, IF first THEN newId ELSE Null,
                     w1.sess.projectPath)
  IN /\ turnOf' = [turnOf EXCEPT ![s] = m]
     /\ IF 152 \in F
        THEN Commit(s, [Throw(w0, "turn") EXCEPT !.esc = TRUE], {})
        ELSE IF first /\ 168 \in F
        THEN Commit(s, [Throw(w1, "turn") EXCEPT !.esc = TRUE], {})
        ELSE Commit(s, [w1 EXCEPT !.new = <<req>>], {})

\* handleMessage(endpoint, threadId, text)
HandleMessage(t, m) ==
  IF ~HasSession(t)
  THEN UNCHANGED <<store, sessionStates, calls, worktreeDir, watch,
                   out, seg, turnOf, busy, thrown, escaped, runs, removals,
                   answering, faults>>
  ELSE IF IsRunning(SessionOfThread(t))
  THEN /\ busy' = [busy EXCEPT ![m] = @ + 1]
       /\ UNCHANGED <<store, sessionStates, calls, worktreeDir,
                      watch, out, seg, turnOf, thrown, escaped, runs, removals,
                      answering, faults>>
  ELSE /\ \E F \in FaultChoices(DispatchSites, 0) :
            /\ RunAgentStart(SessionOfThread(t), m, F)
            /\ faults' = faults + Cardinality(F)
       /\ UNCHANGED busy

\* ChannelMessage.type of what is pushed on the transport's endpoint: a user text,
\* or anything else the channel's type allows
MessageTypes == {"user", "done"}

\* faulty variant of receiveLoop's test: every message is dispatched
AnyType(type) == TRUE

\* receiveLoop: `if (message.type !== "user") continue`
IsUser(type) == type = "user"

\* A message is pushed for thread t. receiveLoop is the only puller of its endpoint
\* and is always waiting in receive() (handleMessage never blocks it), so the push
\* resolves its waiter and the message is looked at at once: a user text is
\* dispatched, anything else is skipped.
Dispatch(t) ==
  /\ msgCtr < MaxMsgs
  /\ msgCtr' = msgCtr + 1
  /\ sentTo' = [sentTo EXCEPT ![msgCtr + 1] = t]
  /\ \E type \in MessageTypes :
       /\ sentAs' = [sentAs EXCEPT ![msgCtr + 1] = type]
       /\ IF IsUser(type)
          THEN HandleMessage(t, msgCtr + 1)
          ELSE UNCHANGED <<store, sessionStates, calls, worktreeDir, watch,
                           out, seg, turnOf, busy, thrown, escaped, runs, removals,
                           answering, faults>>
  /\ UNCHANGED <<evCtr, resets, chanVars, textVars, storeVars, restVars>>

Continue(c, w, res, F) ==
  CASE c.req.kind = "turn" -> TurnCont(w, c, res, F)
    [] c.req.kind = "reviewer" -> ReviewerCont(w, c, res, F)
    [] c.req.kind = "coder" -> CoderCont(w, c, res, F)

\* The agent process runs and exits: its stream events evs reach the callbacks in
\* order, Agent.run returns, and its caller runs on to its next await. The
\* callbacks touch only the run's own flags and the thread's outbound messages,
\* and Agent.run's caller sees nothing of them before the process closes.
RunSent(evs, res) == EventMessages(evs) \o RunTail(QuestionAsked(evs), res)
AfterRun(c, evs, res) ==
  [SendW(World(c.req.sid), RunSent(evs, res))
     EXCEPT !.runs = Append(@, RunRecord(c.req.kind, QuestionAsked(evs), res))]
AfterReturn(c, evs, res, F) ==
  RunAgentEpilogue(Continue([c EXCEPT !.questionAsked = QuestionAsked(evs)],
                            AfterRun(c, evs, res), res, F), F)
AgentReturns(c, evs, res, F) ==
  /\ Commit(c.req.sid, AfterReturn(c, evs, res, F), {c})
  /\ evCtr' = evCtr + Len(evs)
  /\ faults' = faults + Cardinality(F)

AgentReturn(c) ==
  /\ c \in calls
  /\ \E evs \in EventSeqs(MaxEvents - evCtr), res \in Results(c.req),
        F \in FaultChoices(ContSites(c.req.kind), 0) : AgentReturns(c, evs, res, F)
  /\ UNCHANGED <<msgCtr, turnOf, busy, resets, sentTo, sentAs, chanVars, textVars, storeVars,
                 restVars>>

\* Agent.run rejects
ThrowSites(c) == IF c.req.kind = "turn" THEN {238} ELSE {479, 238}
AfterThrow(c, F) ==
  LET w0 == [World(c.req.sid) EXCEPT !.runs = Append(@, ThrewRecord(c.req.kind))]
      r == IF c.req.kind = "turn"
           THEN [w |-> w0, exc |-> TRUE, susp |-> FALSE]
           ELSE PipelineEnd(w0, TRUE, F)
  IN RunAgentEpilogue(r, F)
AgentThrows(c, F) ==
  /\ Commit(c.req.sid, AfterThrow(c, F), {c})
  /\ faults' = faults + 1 + Cardinality(F)

AgentThrow(c) ==
  /\ c \in calls
  /\ MayThrow(0)
  /\ \E F \in FaultChoices(ThrowSites(c), 1) : AgentThrows(c, F)
  /\ UNCHANGED <<msgCtr, evCtr, turnOf, busy, resets, sentTo, sentAs, chanVars, textVars,
                 storeVars, restVars>>

\* a transport's /reset command: sessionManager.resetSession(session.id)
ResetSession(s) ==
  /\ resets < MaxResets /\ resets + faults < MaxUpsets
  /\ resets' = resets + 1
  /\ store' = [store EXCEPT ![s] = ResetRecord(@)]
  /\ UNCHANGED <<msgCtr, evCtr, sessionStates, calls, worktreeDir,
                 watch, out, seg, turnOf, busy, thrown, escaped, sentTo, sentAs,
                 runs, removals, answering, faults, chanVars, textVars, storeVars,
                 restVars>>

Next ==
  \/ \E t \in Threads : Dispatch(t)
  \/ \E c \in calls : AgentReturn(c)
  \/ \E c \in calls : AgentThrow(c)
  \/ \E s \in Sessions : ResetSession(s)

Spec == Init /\ [][Next]_vars

\* ------------------------------------------------------- message channel
\* items passed to send() per direction, and receive() calls per direction
MaxSends == 2
MaxRecvs == 2

Endpoints == {"A", "B"}
Payloads == {"x", "y"}

\* endpointA.send pushes on aToB and endpointA.receive pulls from bToA; B likewise
SendDir(e) == IF e = "A" THEN "aToB" ELSE "bToA"
RecvDir(e) == IF e = "A" THEN "bToA" ELSE "aToB"

\* Item = {threadId, message}; `by` is not in the code: it records who called send()
Item(e, v) == [threadId |-> "t1", message |-> v, by |-> e]

\* faulty variant of push: the item is queued even when a receive() waits for it
PushEnqueueOnly(q, item) ==
  [q |-> [q EXCEPT !.queue = Append(@, item)], resolved |-> 0]

\* faulty variant of pull: the head of the queue is returned but not removed
PullPeek(q, k) ==
  IF q.queue # <<>>
  THEN [q |-> q, value |-> <<Head(q.queue)>>]
  ELSE [q |-> [q EXCEPT !.waiter = k], value |-> <<>>]

\* faulty variant of push: the waiting receive() is resolved and the item queued as well
PushAndEnqueue(q, item) ==
  [q |-> [q EXCEPT !.waiter = 0, !.queue = Append(@, item)], resolved |-> q.waiter]

\* makeQueue().push(item): resolved is the receive() whose promise it resolves (0: none)
Push(q, item) ==
  IF q.waiter # 0
  THEN [q |-> [q EXCEPT !.waiter = 0], resolved |-> q.waiter]
  ELSE [q |-> [q EXCEPT !.queue = Append(@, item)], resolved |-> 0]

\* makeQueue().pull(), issued as the k-th receive(): value is <<item>> when the promise
\* is born resolved, <<>> when it waits
Pull(q, k) ==
  IF q.queue # <<>>
  THEN [q |-> [q EXCEPT !.queue = Tail(@)], value |-> <<Head(q.queue)>>]
  ELSE [q |-> [q EXCEPT !.waiter = k], value |-> <<>>]

\* endpoint e calls send(threadId, message)
Send(e, v) ==
  LET d == SendDir(e)
      r == Push(chan[d], Item(e, v))
  IN /\ Len(sentLog[d]) < MaxSends
     /\ sentLog' = [sentLog EXCEPT ![d] = Append(@, Item(e, v))]
     /\ chan' = [chan EXCEPT ![d] = r.q]
     /\ IF r.resolved # 0
        THEN /\ recvLog' = [recvLog EXCEPT ![d][r.resolved].val = <<Item(e, v)>>]
             /\ delivered' = [delivered EXCEPT ![d] = Append(@, Item(e, v))]
        ELSE UNCHANGED <<recvLog, delivered>>
     /\ UNCHANGED <<overlap, orchVars, textVars, storeVars, restVars>>

\* endpoint e calls receive()
Receive(e) ==
  LET d == RecvDir(e)
      k == Len(recvLog[d]) + 1
      r == Pull(chan[d], k)
  IN /\ Len(recvLog[d]) < MaxRecvs
     /\ chan' = [chan EXCEPT ![d] = r.q]
     /\ recvLog' = [recvLog EXCEPT ![d] = Append(@, [waited |-> r.value = <<>>,
                                                      val |-> r.value])]
     /\ delivered' = [delivered EXCEPT ![d] = @ \o r.value]
     /\ overlap' = [overlap EXCEPT ![d] = @ \/ (r.value = <<>> /\ chan[d].waiter # 0)]
     /\ UNCHANGED <<sentLog, orchVars, textVars, storeVars, restVars>>

NextChan ==
  \/ \E e \in Endpoints, v \in Payloads : Send(e, v)
  \/ \E e \in Endpoints : Receive(e)

SpecChan == Init /\ [][NextChan]_vars

\* --------------------------------------------------- runner text forwarding
\* assistant messages of one run, text blocks per message, characters per block
MaxMessages == 2
MaxBlocks == 2
MaxBlockLen == 2

Chars == {"a", "b"}
Texts == UNION {[1..n -> Chars] : n \in 1..MaxBlockLen}
\* event.message.content of an assistant event: its text blocks
Contents == UNION {[1..n -> Texts] : n \in 1..MaxBlocks}

RECURSIVE Flat(_)
Flat(blocks) == IF blocks = <<>> THEN <<>> ELSE Head(blocks) \o Flat(Tail(blocks))

\* handleAssistantEvent's loop over the text blocks, from the runner state
\* r = [stl: streamedTextLength, fwd: the text given to onText]
RECURSIVE HandleAssistantEvent(_, _)
HandleAssistantEvent(blocks, r) ==
  IF blocks = <<>> THEN r
  ELSE HandleAssistantEvent(Tail(blocks),
         IF r.stl > 0
         THEN [r EXCEPT !.stl = 0]
         ELSE [r EXCEPT !.fwd = @ \o Head(blocks)])

\* the agent starts an assistant message whose text blocks will be `blocks`
BeginMessage(blocks) ==
  /\ pending = <<>>
  /\ msgsDone < MaxMessages
  /\ pending' = blocks
  /\ streamPos' = 0
  /\ UNCHANGED <<streamedTextLength, forwarded, full, msgsDone, orchVars, chanVars,
                 storeVars, restVars>>

\* handleStreamEvent on a content_block_delta / text_delta carrying the next n characters
TextDelta(n) ==
  /\ pending # <<>>
  /\ streamPos + n <= Len(Flat(pending))
  /\ LET text == SubSeq(Flat(pending), streamPos + 1, streamPos + n)
     IN /\ streamedTextLength' = streamedTextLength + Len(text)
        /\ forwarded' = forwarded \o text
  /\ streamPos' = streamPos + n
  /\ UNCHANGED <<pending, full, msgsDone, orchVars, chanVars, storeVars, restVars>>

\* the assistant event that closes the message: handleAssistantEvent
AssistantEvent ==
  /\ pending # <<>>
  /\ LET r == HandleAssistantEvent(pending, [stl |-> streamedTextLength,
                                             fwd |-> forwarded])
     IN /\ streamedTextLength' = r.stl
        /\ forwarded' = r.fwd
  /\ full' = full \o Flat(pending)
  /\ pending' = <<>>
  /\ streamPos' = 0
  /\ msgsDone' = msgsDone + 1
  /\ UNCHANGED <<orchVars, chanVars, storeVars, restVars>>

NextText ==
  \/ \E blocks \in Contents : BeginMessage(blocks)
  \/ \E n \in 1..MaxBlockLen : TextDelta(n)
  \/ AssistantEvent

SpecText == Init /\ [][NextText]_vars

\* --------------------------------------------------------- session store
\* The methods of SessionManager called on their own, with ids of sessions that
\* exist and one that does not.
MaxStoreOps == 3

\* an id no session has
UnknownIds == {"sx"}
StoreIds == Sessions \cup UnknownIds

\* one method call: getById(id) finds the record or not; `next` is the store after it
StoreCall(op, id, ret, next) ==
  /\ lastOp.n < MaxStoreOps
  /\ store' = next
  /\ lastOp' = [op |-> op, id |-> id, ret |-> ret, before |-> store, n |-> lastOp.n + 1]
  /\ UNCHANGED <<msgCtr, evCtr, sessionStates, calls, worktreeDir, watch, out, seg,
                 turnOf, busy, thrown, escaped, resets, sentTo, sentAs, runs, removals,
                 answering, faults, chanVars, textVars, restVars>>

\* addUsage(id, usage, durationMs, turns): void
StoreAddUsage(id) ==
  \E has \in BOOLEAN :
    LET res == [has |-> has, numTurns |-> IF has THEN 1 ELSE 0]
    IN StoreCall("addUsage", id, FALSE,
                 IF id \in Sessions
                 THEN [store EXCEPT ![id] = AddResult(@, res)]
                 ELSE store)

\* updateAgentSessionId(id, agentSessionId): void
StoreUpdateAgentSessionId(id) ==
  \E a \in {Uuid(1), AgentOwnId} :
    StoreCall("updateAgentSessionId", id, FALSE,
              IF id \in Sessions
              THEN [store EXCEPT ![id] = UpdateAgentSessionId(@, a)]
              ELSE store)

\* resetSession(id): boolean
StoreResetSession(id) ==
  IF id \in Sessions
  THEN StoreCall("resetSession", id, TRUE, [store EXCEPT ![id] = ResetRecord(@)])
  ELSE StoreCall("resetSession", id, FALSE, store)

NextStore ==
  \/ \E id \in StoreIds : StoreAddUsage(id)
  \/ \E id \in StoreIds : StoreUpdateAgentSessionId(id)
  \/ \E id \in StoreIds : StoreResetSession(id)

SpecStore == Init /\ [][NextStore]_vars

\* ======================================================= one agent run
\* What the agent process writes on stdout, line by line (`--output-format
\* stream-json`), as handleLine sees it after the split at newlines.
ContentsOf(blocks) == UNION {[1..k -> blocks] : k \in 1..MaxContent}
\* a JSON null where a content block is expected
NullBlock == [type |-> "null"]
AssistantBlocks ==
  {[type |-> "text", text |-> <<"x">>], NullBlock}
    \cup {[type |-> "tool_use", name |-> n] : n \in ToolNames \cup {AskUserQuestion}}
\* is_error is optional in a tool_result block
UserBlocks ==
  {[type |-> "tool_result"]} \cup {[type |-> "tool_result", is_error |-> e] : e \in BOOLEAN}
\* one number stands for duration_ms, num_turns and usage.input_tokens of a result
\* event (Absent: the fields are missing)
ResultEvents ==
  {[type |-> "result", session_id |-> Null, n |-> 1],
   [type |-> "result", session_id |-> <<"agent", 2>>, n |-> 1],
   [type |-> "result", session_id |-> <<"agent", 2>>, n |-> Absent]}
StdoutLines ==
  {[type |-> "blank"], [type |-> "nonjson"], [type |-> "jsonnull"]}
    \cup {[type |-> "system", session_id |-> i] : i \in {Null, <<"agent", 1>>}}
    \cup {[type |-> "text_delta", text |-> <<"x">>]}
    \cup {[type |-> "content_block_start", name |-> n] : n \in {"Read", AskUserQuestion}}
    \cup {[type |-> "assistant", content |-> c] : c \in ContentsOf(AssistantBlocks)}
    \cup {[type |-> "user", content |-> c] : c \in ContentsOf(UserBlocks)}
    \cup ResultEvents

\* endpoint.send(threadId, message)
Sent(r, message) == [r EXCEPT !.sent = Append(@, message)]
\* an exception leaves the handler: nothing after it in the handler is done
Thrown(r) == [r EXCEPT !.threw = TRUE]

\* the callbacks ClaudeAgent.run hands to runClaude
OnSessionId(r, sessionId) ==
  IF r.agentSessionId = Null THEN [r EXCEPT !.agentSessionId = sessionId] ELSE r
OnText(r, text) == Sent(r, [type |-> "assistant", text |-> text])
OnToolUse(r, c, name) ==
  LET named == [r EXCEPT !.runLastToolName = name]
  IN  IF Verbosity(c) >= 2 THEN Sent(named, [type |-> "tool_call", name |-> name])
      ELSE named
\* faulty variant of onToolResult: the name the runner passes is the one sent
OnToolResultAsPassed(r, c, name, isError) ==
  IF Verbosity(c) >= 2
  THEN Sent(r, [type |-> "tool_result", name |-> name, isError |-> isError])
  ELSE r
\* faulty variant of onToolResult: sent whatever the verbosity
OnToolResultAlways(r, c, name, isError) ==
  Sent(r, [type |-> "tool_result", name |-> r.runLastToolName, isError |-> isError])
OnToolResult(r, c, name, isError) ==
  IF Verbosity(c) >= 2
  THEN Sent(r, [type |-> "tool_result", name |-> r.runLastToolName, isError |-> isError])
  ELSE r
OnQuestion(r) == Sent([r EXCEPT !.questionAsked = TRUE], [type |-> "question"])
OnError(r, error) ==
  Sent(r, [type |-> "text", text |-> error, subtype |-> "error"])

\* runClaude's handlers
HandleStreamEvent(r, line) ==
  IF line.type = "text_delta"
  THEN OnText([r EXCEPT !.streamedTextLength = @ + Len(line.text)], line.text)
  ELSE [r EXCEPT !.lastToolName = line.name]

AssistantBlock(r, c, block) ==
  CASE block = NullBlock -> Thrown(r)
    [] block.type = "text" ->
         IF r.streamedTextLength > 0 THEN [r EXCEPT !.streamedTextLength = 0]
         ELSE OnText(r, block.text)
    [] OTHER ->
         IF block.name = AskUserQuestion THEN OnQuestion(r)
         ELSE OnToolUse([r EXCEPT !.lastToolName = block.name], c, block.name)

UserBlock(r, c, block) ==
  LET isError == IF "is_error" \in DOMAIN block THEN block.is_error ELSE FALSE
  IN  OnToolResult(r, c, r.lastToolName, isError)

RECURSIVE HandleAssistantBlocks(_, _, _, _)
HandleAssistantBlocks(r, c, content, i) ==
  IF i > Len(content) \/ r.threw THEN r
  ELSE HandleAssistantBlocks(AssistantBlock(r, c, content[i]), c, content, i + 1)

RECURSIVE HandleUserEvent(_, _, _, _)
HandleUserEvent(r, c, content, i) ==
  IF i > Len(content) THEN r
  ELSE HandleUserEvent(UserBlock(r, c, content[i]), c, content, i + 1)

HandleResultEvent(r, event) ==
  LET seen == IF event.session_id # Null THEN OnSessionId(r, event.session_id) ELSE r
  IN  [seen EXCEPT !.result =
         [set |-> TRUE, sessionId |-> event.session_id,
          durationMs |-> OrZero(event.n), numTurns |-> OrZero(event.n),
          input_tokens |-> OrZero(event.n), result |-> "text"]]

HandleEvent(r, c, event) ==
  CASE event.type = "jsonnull" -> Thrown(r)
    [] event.type = "system" ->
         IF event.session_id # Null THEN OnSessionId(r, event.session_id) ELSE r
    [] event.type \in {"text_delta", "content_block_start"} -> HandleStreamEvent(r, event)
    [] event.type = "assistant" -> HandleAssistantBlocks(r, c, event.content, 1)
    [] event.type = "user" -> HandleUserEvent(r, c, event.content, 1)
    [] event.type = "result" -> HandleResultEvent(r, event)

\* faulty variant of handleLine's catch: the exception goes on
Uncaught(r) == r
\* `try { handleEvent(event) } catch (err) { console.error(...) }`
Caught(r) == [r EXCEPT !.threw = FALSE]

HandleLine(r, c, line) ==
  IF line.type \in {"blank", "nonjson"} THEN r
  ELSE Caught(HandleEvent(r, c, line))

\* resolve(): the first call settles the promise, later calls do nothing
Resolve(r, value) ==
  IF r.resolved THEN r ELSE [r EXCEPT !.resolved = TRUE, !.value = value]

\* exit codes of the close event: 0, a failure of the agent, and the errno the
\* close event carries after a failed spawn
ExitCodes == {0, 1}
SpawnErrno == -2

\* ClaudeAgent.run up to `await promise`: spawn() starts the process, or fails and
\* reports it by an error event, or throws (the run's promise rejects)
Spawn ==
  /\ proc = "new"
  /\ \E outcome \in {"running", "failing", "rejected"} :
       /\ proc' = outcome
       /\ rs' = IF outcome = "rejected"
                  THEN [c \in Verbosities |->
                          [rs[c] EXCEPT !.returned = TRUE, !.rejected = TRUE]]
                  ELSE rs
  /\ UNCHANGED <<handled, exitCode, orchVars, chanVars, textVars, storeVars, chunkVars, startVars, cliVars, tgVars>>

\* proc.on("error")
ProcError ==
  /\ proc = "failing"
  /\ proc' = "errored"
  /\ rs' = [c \in Verbosities |-> Resolve(OnError(rs[c], "spawn"), NoResult)]
  /\ UNCHANGED <<handled, exitCode, orchVars, chanVars, textVars, storeVars, chunkVars, startVars, cliVars, tgVars>>

\* proc.stdout.on("data"), for one complete line of the output
StdoutLine ==
  /\ proc = "running"
  /\ Len(handled) < MaxLines
  /\ \E line \in StdoutLines :
       /\ handled' = Append(handled, line)
       /\ rs' = [c \in Verbosities |-> HandleLine(rs[c], c, line)]
  /\ UNCHANGED <<proc, exitCode, orchVars, chanVars, textVars, storeVars, chunkVars, startVars, cliVars, tgVars>>

\* what close does after the rest of the buffer
CloseTail(r, code) ==
  Resolve(IF code # 0 /\ ~r.result.set THEN OnError(r, "exit") ELSE r, r.result)

\* proc.on("close"): after the output's end, with an unterminated last line or
\* without; or after the error event of a failed spawn, which it may follow
ProcClose ==
  /\ \/ /\ proc = "running"
        /\ \E code \in ExitCodes :
             /\ exitCode' = code
             /\ \/ /\ rs' = [c \in Verbosities |-> CloseTail(rs[c], code)]
                   /\ UNCHANGED handled
                \/ /\ Len(handled) < MaxLines
                   /\ \E line \in StdoutLines \ {[type |-> "blank"]} :
                        /\ handled' = Append(handled, line)
                        /\ rs' = [c \in Verbosities |->
                                    CloseTail(HandleLine(rs[c], c, line), code)]
     \/ /\ proc = "errored"
        /\ exitCode' = SpawnErrno
        /\ rs' = [c \in Verbosities |-> CloseTail(rs[c], SpawnErrno)]
        /\ UNCHANGED handled
  /\ proc' = "closed"
  /\ UNCHANGED <<orchVars, chanVars, textVars, storeVars, chunkVars, startVars, cliVars, tgVars>>

\* ClaudeAgent.run after `await promise`
RunReturn(r) ==
  LET marked == IF ~r.questionAsked
                  THEN Sent(r, [type |-> "assistant", text |-> <<"100">>])
                  ELSE r
  IN  [Sent(marked, [type |-> "done"]) EXCEPT
         !.returned = TRUE,
         !.ret = [agentSessionId |-> r.agentSessionId,
                  durationMs |-> r.value.durationMs,
                  numTurns |-> r.value.numTurns,
                  input_tokens |-> r.value.input_tokens,
                  questionAsked |-> r.questionAsked,
                  resultText |-> r.value.result]]

RunResume ==
  /\ \A c \in Verbosities : rs[c].resolved /\ ~rs[c].returned
  /\ rs' = [c \in Verbosities |-> RunReturn(rs[c])]
  /\ UNCHANGED <<proc, handled, exitCode, orchVars, chanVars, textVars, storeVars, chunkVars, startVars, cliVars, tgVars>>

NextRun ==
  \/ Spawn
  \/ ProcError
  \/ StdoutLine
  \/ ProcClose
  \/ RunResume
SpecRun == Init /\ [][NextRun]_vars

\* ============================================== stdout, chunk by chunk
\* The agent writes UTF-8: a letter, a space and a newline are one byte each, and
\* one two-byte character stands for all that are longer than a byte.
Bytes == {"a", " ", "\n", "C3", "A9"}
\* the byte sequences that are the beginning of some UTF-8 text
RECURSIVE WellFormed(_, _)
WellFormed(bytes, i) ==
  IF i > Len(bytes) THEN TRUE
  ELSE IF bytes[i] = "C3"
         THEN IF i = Len(bytes) THEN TRUE
              ELSE bytes[i + 1] = "A9" /\ WellFormed(bytes, i + 2)
       ELSE bytes[i] # "A9" /\ WellFormed(bytes, i + 1)
Complete(bytes) == IF bytes = <<>> THEN TRUE ELSE bytes[Len(bytes)] # "C3"

\* chunk.toString(): each chunk is decoded on its own; the bytes of a character
\* that is not whole within the chunk become U+FFFD each
RECURSIVE ChunkToString(_, _)
ChunkToString(chunk, i) ==
  IF i > Len(chunk) THEN <<>>
  ELSE IF chunk[i] = "C3" /\ i < Len(chunk) /\ chunk[i + 1] = "A9"
         THEN <<"e'">> \o ChunkToString(chunk, i + 2)
       ELSE IF chunk[i] \in {"C3", "A9"} THEN <<"U+FFFD">> \o ChunkToString(chunk, i + 1)
       ELSE <<chunk[i]>> \o ChunkToString(chunk, i + 1)

\* String.prototype.split("\n")
RECURSIVE Split(_, _, _)
Split(str, i, cur) ==
  IF i > Len(str) THEN <<cur>>
  ELSE IF str[i] = "\n" THEN <<cur>> \o Split(str, i + 1, <<>>)
       ELSE Split(str, i + 1, Append(cur, str[i]))
\* String.prototype.trim()
RECURSIVE Trim(_)
Trim(str) ==
  IF str = <<>> THEN str
  ELSE IF Head(str) \in {" ", "\n"} THEN Trim(Tail(str))
       ELSE IF str[Len(str)] \in {" ", "\n"} THEN Trim(SubSeq(str, 1, Len(str) - 1))
       ELSE str

\* handleLine up to JSON.parse: the lines that reach the parser
RECURSIVE ParseLines(_, _, _)
ParseLines(done, lines, i) ==
  IF i > Len(lines) THEN done
  ELSE ParseLines(IF Trim(lines[i]) = <<>> THEN done ELSE Append(done, Trim(lines[i])),
                  lines, i + 1)

\* proc.stdout.on("data"): buffer += chunk.toString(); the last piece of the split
\* stays in the buffer, the others go to handleLine
OnData(st, chunk) ==
  LET lines == Split(st.buffer \o ChunkToString(chunk, 1), 1, <<>>)
  IN  [buffer |-> lines[Len(lines)],
       parsed |-> ParseLines(st.parsed, SubSeq(lines, 1, Len(lines) - 1), 1)]
\* proc.on("close"): `if (buffer.trim()) handleLine(buffer)`
OnClose(st) ==
  [buffer |-> st.buffer,
   parsed |-> IF Trim(st.buffer) # <<>> THEN ParseLines(st.parsed, <<st.buffer>>, 1)
              ELSE st.parsed]

Chunks == UNION {[1..k -> Bytes] : k \in 1..MaxChunk}

StdoutData ==
  /\ ~closed
  /\ \E chunk \in Chunks :
       /\ Len(written) + Len(chunk) <= MaxBytes
       /\ WellFormed(written \o chunk, 1)
       /\ written' = written \o chunk
       /\ LET st == OnData([buffer |-> buffer, parsed |-> parsed], chunk)
          IN  buffer' = st.buffer /\ parsed' = st.parsed
  /\ UNCHANGED <<closed, orchVars, chanVars, textVars, storeVars, runnerVars, startVars, cliVars, tgVars>>

StdoutClose ==
  /\ ~closed
  /\ Complete(written)
  /\ closed' = TRUE
  /\ LET st == OnClose([buffer |-> buffer, parsed |-> parsed])
     IN  buffer' = st.buffer /\ parsed' = st.parsed
  /\ UNCHANGED <<written, orchVars, chanVars, textVars, storeVars, runnerVars, startVars, cliVars, tgVars>>

NextLines ==
  \/ StdoutData
  \/ StdoutClose
SpecLines == Init /\ [][NextLines]_vars

\* ============================================================ session start
\* One process serves one channel (CHANNEL, default telegram); both keep their
\* sessions in DATA_DIR/sessions.json.
\* thread cli:default (0) and the threads cli:<Date.now()> of the `new` command
CliDefault == <<"cli", 0>>

\* SessionManager.getByThread: `find`, the first match (0: undefined)
GetByThread(ss, threadId) ==
  LET hits == {i \in DOMAIN ss : ss[i].threadId = threadId}
  IN  IF hits = {} THEN 0 ELSE CHOOSE i \in hits : \A j \in hits : i <= j

\* SessionManager.load: the records of sessions.json (of a record, the model keeps
\* its id, threadId, channel and worktree, which JSON writes and reads back as is)
Load(f) == f

\* SessionManager.create up to save(): `this.sessions.push(session)`
Create(ss, id, threadId, channel, wt) ==
  Append(ss, [id |-> id, threadId |-> threadId, channel |-> channel, worktree |-> wt])

\* SessionManager.deleteSession up to save(): `this.sessions.splice(idx, 1)`
Splice(ss, i) == SubSeq(ss, 1, i - 1) \o SubSeq(ss, i + 1, Len(ss))

\* the worktree part of a session start: none for a path outside git; else
\* createWorktree, which makes a branch of a new name and its directory, or throws
\* `made` is the worktree made (0: none), `ok` is false if createWorktree threw
WorktreeStep(git, wtOk) ==
  [ok |-> ~git \/ wtOk, made |-> IF git /\ wtOk THEN branches + 1 ELSE 0]

\* the end of every start attempt: what it was and what it left
Attempted(kind, failed, reported, threadId, id, made) ==
  /\ attempts' = attempts + 1
  /\ attempt' = [kind |-> kind, failed |-> failed, reported |-> reported,
                 threadId |-> threadId, id |-> id, made |-> made]

\* a process starts with CHANNEL=telegram: new SessionManager, startTelegram
TelegramBoot ==
  /\ up = "down"
  /\ boots < MaxBoots
  /\ boots' = boots + 1
  /\ up' = "telegram"
  /\ sessions' = Load(file)
  /\ UNCHANGED <<file, worktrees, branches, topics, clock, uuids, edits, attempts,
                 attempt, orchVars, chanVars, textVars, storeVars, runnerVars,
                 chunkVars, cliVars, tgVars>>

\* a process starts with CHANNEL=cli: new SessionManager, then startCli up to its
\* prompt: the worktree, then the session of thread cli:default. A failed worktree
\* ends the process (process.exit), and so does a throwing save()
CliStart ==
  /\ up = "down"
  /\ boots < MaxBoots
  /\ attempts < MaxStarts
  /\ boots' = boots + 1
  /\ \E git, wtOk, saveOk \in BOOLEAN :
       LET wt == WorktreeStep(git, wtOk)
           created == Create(Load(file), uuids + 1, CliDefault, "cli", wt.made)
       IN  IF ~wt.ok
           THEN /\ Attempted("cli", "worktree", TRUE, Null, 0, 0)
                /\ up' = "down"
                /\ sessions' = <<>>
                /\ UNCHANGED <<file, worktrees, branches, uuids>>
           ELSE /\ worktrees' = worktrees \cup ({wt.made} \ {0})
                /\ branches' = IF wt.made # 0 THEN wt.made ELSE branches
                /\ uuids' = uuids + 1
                /\ IF saveOk
                   THEN /\ Attempted("cli", "none", FALSE, CliDefault, uuids + 1, wt.made)
                        /\ up' = "cli"
                        /\ sessions' = created
                        /\ file' = created
                   ELSE /\ Attempted("cli", "record", TRUE, CliDefault, uuids + 1, wt.made)
                        /\ up' = "down"
                        /\ sessions' = <<>>
                        /\ UNCHANGED file
  /\ UNCHANGED <<topics, clock, edits, orchVars, chanVars, textVars, storeVars,
                 runnerVars, chunkVars, cliVars, tgVars>>

\* the CLI's `new <path>` command: thread cli:<Date.now()>
CliNew ==
  /\ up = "cli"
  /\ attempts < MaxStarts
  /\ clock' = clock + 1
  /\ \E git, wtOk, saveOk \in BOOLEAN :
       LET wt == WorktreeStep(git, wtOk)
           threadId == <<"cli", clock>>
           created == Create(sessions, uuids + 1, threadId, "cli", wt.made)
       IN  IF ~wt.ok
           THEN /\ Attempted("cli", "worktree", TRUE, Null, 0, 0)
                /\ UNCHANGED <<up, sessions, file, worktrees, branches, uuids>>
           ELSE /\ worktrees' = worktrees \cup ({wt.made} \ {0})
                /\ branches' = IF wt.made # 0 THEN wt.made ELSE branches
                /\ uuids' = uuids + 1
                /\ IF saveOk
                   THEN /\ Attempted("cli", "none", FALSE, threadId, uuids + 1, wt.made)
                        /\ sessions' = created
                        /\ file' = created
                        /\ UNCHANGED up
                   ELSE /\ Attempted("cli", "record", TRUE, threadId, uuids + 1, wt.made)
                        /\ up' = "down"
                        /\ sessions' = <<>>
                        /\ UNCHANGED file
  /\ UNCHANGED <<topics, boots, edits, orchVars, chanVars, textVars, storeVars,
                 runnerVars, chunkVars, cliVars, tgVars>>

\* Telegram's /new outside a session's topic (handleNew, normal mode): the worktree,
\* the forum topic, the session record; each failure is caught and answered
HandleNew ==
  /\ up = "telegram"
  /\ attempts < MaxStarts
  /\ \E git, wtOk, topicOk, saveOk \in BOOLEAN :
       LET wt == WorktreeStep(git, wtOk)
           threadId == <<"telegram", topics + 1>>
           created == Create(sessions, uuids + 1, threadId, "telegram", wt.made)
       IN  IF ~wt.ok
           THEN /\ Attempted("telegram", "worktree", TRUE, Null, 0, 0)
                /\ UNCHANGED <<sessions, file, worktrees, branches, topics, uuids>>
           ELSE /\ worktrees' = worktrees \cup ({wt.made} \ {0})
                /\ branches' = IF wt.made # 0 THEN wt.made ELSE branches
                /\ IF ~topicOk
                   THEN /\ Attempted("telegram", "topic", TRUE, Null, 0, wt.made)
                        /\ UNCHANGED <<sessions, file, topics, uuids>>
                   ELSE /\ topics' = topics + 1
                        /\ uuids' = uuids + 1
                        /\ sessions' = created
                        /\ IF saveOk
                           THEN /\ Attempted("telegram", "none", FALSE, threadId,
                                             uuids + 1, wt.made)
                                /\ file' = created
                           ELSE /\ Attempted("telegram", "record", TRUE, threadId,
                                             uuids + 1, wt.made)
                                /\ UNCHANGED file
  /\ UNCHANGED <<up, clock, boots, edits, orchVars, chanVars, textVars, storeVars,
                 runnerVars, chunkVars, cliVars, tgVars>>

\* Telegram's /new inside the topic of session i whose worktree is missing
\* (handleNewReconcile): createWorktree, then enableWorktree
HandleNewReconcile ==
  /\ up = "telegram"
  /\ attempts < MaxStarts
  /\ \E i \in DOMAIN sessions : \E wtOk, saveOk \in BOOLEAN :
       LET wt == WorktreeStep(TRUE, wtOk)
           enabled == [sessions EXCEPT ![i].worktree = wt.made]
       IN  /\ sessions[i].channel = "telegram"
           /\ i = GetByThread(sessions, sessions[i].threadId)
           /\ sessions[i].worktree \notin worktrees
           /\ IF ~wt.ok
              THEN /\ Attempted("reconcile", "worktree", TRUE, sessions[i].threadId,
                                sessions[i].id, 0)
                   /\ UNCHANGED <<sessions, file, worktrees, branches>>
              ELSE /\ worktrees' = worktrees \cup {wt.made}
                   /\ branches' = wt.made
                   /\ sessions' = enabled
                   /\ IF saveOk
                      THEN /\ Attempted("reconcile", "none", FALSE, sessions[i].threadId,
                                        sessions[i].id, wt.made)
                           /\ file' = enabled
                      ELSE /\ Attempted("reconcile", "record", TRUE,
                                        sessions[i].threadId, sessions[i].id, wt.made)
                           /\ UNCHANGED file
  /\ UNCHANGED <<up, topics, clock, uuids, boots, edits, orchVars, chanVars, textVars,
                 storeVars, runnerVars, chunkVars, cliVars, tgVars>>

\* Telegram's /delete in the topic of a session: removeWorktree, deleteSession
HandleDelete ==
  /\ up = "telegram"
  /\ edits < MaxEdits
  /\ edits' = edits + 1
  /\ \E t \in {sessions[k].threadId : k \in DOMAIN sessions} : \E saveOk \in BOOLEAN :
       LET i == GetByThread(sessions, t)
       IN  /\ sessions[i].channel = "telegram"
           /\ worktrees' = worktrees \ {sessions[i].worktree}
           /\ sessions' = Splice(sessions, i)
           /\ file' = IF saveOk THEN Splice(sessions, i) ELSE file
  /\ UNCHANGED <<up, branches, topics, clock, uuids, boots, attempts, attempt,
                 orchVars, chanVars, textVars, storeVars, runnerVars, chunkVars, cliVars, tgVars>>

\* /reset (Telegram) or reset (CLI): resetSession leaves id, thread and worktree as
\* they are, and saves
HandleReset ==
  /\ up # "down"
  /\ sessions # <<>>
  /\ edits < MaxEdits
  /\ edits' = edits + 1
  /\ \E saveOk \in BOOLEAN : file' = IF saveOk THEN sessions ELSE file
  /\ UNCHANGED <<up, sessions, worktrees, branches, topics, clock, uuids, boots,
                 attempts, attempt, orchVars, chanVars, textVars, storeVars,
                 runnerVars, chunkVars, cliVars, tgVars>>

\* the process ends (exit, restart, update): what is not in sessions.json is gone
Stop ==
  /\ up # "down"
  /\ up' = "down"
  /\ sessions' = <<>>
  /\ UNCHANGED <<file, worktrees, branches, topics, clock, uuids, boots, edits,
                 attempts, attempt, orchVars, chanVars, textVars, storeVars,
                 runnerVars, chunkVars, cliVars, tgVars>>

NextStart ==
  \/ TelegramBoot
  \/ CliStart
  \/ CliNew
  \/ HandleNew
  \/ HandleNewReconcile
  \/ HandleDelete
  \/ HandleReset
  \/ Stop
SpecStart == Init /\ [][NextStart]_vars

\* ----------------------------------------------------------- CLI transport
\* startCli registers one endpoint for all its sessions: what the orchestrator
\* sends for any of them arrives on it, in the order sent. An item is
\* {threadId, message}; `from` and `turn` are not in the code: they record who
\* sent the message (the run of a turn, of a reviewer or of a coder, or the
\* orchestrator itself) and the user text whose turn its session was in.
Tag(s, from, msgs) ==
  [i \in DOMAIN msgs |-> [threadId |-> ThreadOf(s), message |-> msgs[i],
                          from |-> from, turn |-> turnOf[s]]]

\* the messages of one step of session s, in the order sent: those of the run that
\* ended (run), then those of its caller, which w.log holds after what the segment
\* held before, unless the caller began a new segment with them
Emitted(s, kind, run, w) ==
  Tag(s, kind, run)
  \o Tag(s, "orchestrator",
         IF w.new # <<>> THEN w.log
         ELSE SubSeq(w.log, Len(out) + Len(run) + 1, Len(w.log)))

\* the first `done` of a queue (0: none)
FirstDone(q) ==
  IF \E i \in DOMAIN q : q[i].message = "done"
  THEN CHOOSE i \in DOMAIN q : /\ q[i].message = "done"
                               /\ \A j \in 1..(i - 1) : q[j].message # "done"
  ELSE 0

\* sendAndWait's loop, for the user text `text` (0: no sendAndWait is pending and
\* nobody receives): `const {message} = await endpoint.receive()` takes the items
\* in order, whatever their threadId, and renderMessage ends the loop at the first
\* `done`. The loop takes every item there is before the next event is handled.
SendAndWaitLoop(text, q) ==
  IF text = 0
  THEN /\ Len(q) <= MaxInbox
       /\ cliInbox' = q /\ cliWaiting' = 0 /\ UNCHANGED cliEnded
  ELSE IF FirstDone(q) = 0
  THEN /\ cliInbox' = <<>> /\ cliWaiting' = text /\ UNCHANGED cliEnded
  ELSE /\ cliInbox' = SubSeq(q, FirstDone(q) + 1, Len(q))
       /\ cliWaiting' = 0
       /\ cliEnded' = [text |-> text, by |-> q[FirstDone(q)]]

\* startCli: `let currentSession = sessionManager.create({threadId: "cli:default", ...})`
CliBegin ==
  /\ cliCurrent = "-"
  /\ \E s \in Sessions : cliCurrent' = s /\ cliPast' = {s}
  /\ UNCHANGED <<cliInbox, cliWaiting, cliEnded, orchVars, chanVars, textVars,
                 storeVars, runnerVars, chunkVars, startVars, tgVars>>

\* the prompt's `new <path>`: currentSession = sessionManager.create(...)
CliSwitch ==
  /\ cliCurrent # "-" /\ cliWaiting = 0
  /\ \E s \in Sessions \ cliPast : cliCurrent' = s /\ cliPast' = cliPast \cup {s}
  /\ UNCHANGED <<cliInbox, cliWaiting, cliEnded, orchVars, chanVars, textVars,
                 storeVars, runnerVars, chunkVars, startVars, tgVars>>

\* the prompt's `reset`: sessionManager.resetSession(currentSession.id)
CliReset ==
  /\ cliCurrent # "-" /\ cliWaiting = 0
  /\ resets < MaxResets /\ resets + faults < MaxUpsets
  /\ resets' = resets + 1
  /\ store' = [store EXCEPT ![cliCurrent] = ResetRecord(@)]
  /\ UNCHANGED <<msgCtr, evCtr, sessionStates, calls, worktreeDir,
                 watch, out, seg, turnOf, busy, thrown, escaped, sentTo, sentAs,
                 runs, removals, answering, faults, chanVars, textVars, storeVars,
                 runnerVars, chunkVars, startVars, cliVars, tgVars>>

\* a line that is no command: pendingSend = sendAndWait(transportEnd,
\* currentSession.threadId, trimmed). The push wakes receiveLoop, handleMessage runs,
\* and the loop receives what is in the channel by then.
CliLine ==
  /\ cliCurrent # "-" /\ cliWaiting = 0
  /\ msgCtr < MaxMsgs
  /\ msgCtr' = msgCtr + 1
  /\ sentTo' = [sentTo EXCEPT ![msgCtr + 1] = ThreadOf(cliCurrent)]
  /\ sentAs' = [sentAs EXCEPT ![msgCtr + 1] = "user"]
  /\ HandleMessage(ThreadOf(cliCurrent), msgCtr + 1)
  /\ SendAndWaitLoop(msgCtr + 1,
                     cliInbox \o (IF busy'[msgCtr + 1] > busy[msgCtr + 1]
                                  THEN Tag(cliCurrent, "orchestrator", <<"notice:busy">>)
                                  ELSE <<>>))
  /\ UNCHANGED <<evCtr, resets, cliCurrent, cliPast, chanVars, textVars, storeVars,
                 runnerVars, chunkVars, startVars, tgVars>>

\* an agent run of a CLI session returns
CliAgentReturn(c) ==
  /\ c \in calls
  /\ \E evs \in EventSeqs(MaxEvents - evCtr), res \in Results(c.req),
        F \in FaultChoices(ContSites(c.req.kind), 0) :
       /\ AgentReturns(c, evs, res, F)
       /\ SendAndWaitLoop(cliWaiting,
                          cliInbox \o Emitted(c.req.sid, c.req.kind, RunSent(evs, res),
                                              AfterReturn(c, evs, res, F)))
  /\ UNCHANGED <<msgCtr, turnOf, busy, resets, sentTo, sentAs, cliCurrent, cliPast, chanVars,
                 textVars, storeVars, runnerVars, chunkVars, startVars, tgVars>>

\* an agent run of a CLI session rejects
CliAgentThrow(c) ==
  /\ c \in calls
  /\ MayThrow(0)
  /\ \E F \in FaultChoices(ThrowSites(c), 1) :
       /\ AgentThrows(c, F)
       /\ SendAndWaitLoop(cliWaiting,
                          cliInbox \o Emitted(c.req.sid, c.req.kind, <<>>,
                                              AfterThrow(c, F)))
  /\ UNCHANGED <<msgCtr, evCtr, turnOf, busy, resets, sentTo, sentAs, cliCurrent, cliPast,
                 chanVars, textVars, storeVars, runnerVars, chunkVars, startVars, tgVars>>

NextCli ==
  \/ CliBegin
  \/ CliSwitch
  \/ CliReset
  \/ CliLine
  \/ \E c \in calls : CliAgentReturn(c)
  \/ \E c \in calls : CliAgentThrow(c)

SpecCli == Init /\ [][NextCli]_vars

\* ------------------------------------------------------ Telegram transport
\* The streaming state of one thread. A text is appended to the pendingHtml of the
\* thread's state; flush sends what is pending by one API call. scheduleFlush chains
\* the flush on the state's flushPromise and handleDone chains the cleanup after its
\* final flush: `chain` holds the callbacks chained and not finished, in order, and
\* `sending` what the flush at its head has taken and is sending. Tool messages are
\* left out: handleToolCall appends like a text, and handleToolResult schedules a
\* flush only when nothing is pending.
MaxTexts == 3
MaxDones == 2
\* ThreadStreamState objects created in one behaviour, and callbacks chained on one
MaxStates == 2
MaxChain == 4

\* createStreamState, with the flush timer getOrCreateState starts
NewState == [pendingHtml |-> <<>>, flushTimer |-> TRUE, chain |-> <<>>, sending |-> <<>>]

\* The callbacks chained on state o's flushPromise run as far as they can. flush
\* returns at once when nothing is pending; else it takes pendingHtml and awaits
\* the API call. The cleanup is `this.threadStates.delete(threadId)`.
RECURSIVE Settle(_, _)
Settle(t, o) ==
  LET st == t.states[o]
  IN IF st.sending # <<>> THEN t
     ELSE IF st.chain = <<>> THEN t
     ELSE IF Head(st.chain) = "cleanup"
     THEN Settle([states |-> [t.states EXCEPT ![o].chain = Tail(@)], mapped |-> 0], o)
     ELSE IF st.pendingHtml = <<>>
     THEN Settle([t EXCEPT !.states[o].chain = Tail(@)], o)
     ELSE [t EXCEPT !.states[o].sending = st.pendingHtml,
                    !.states[o].pendingHtml = <<>>]

\* scheduleFlush: state.flushPromise = state.flushPromise.then(() => this.flush(...))
ScheduleFlush(t, o) == Settle([t EXCEPT !.states[o].chain = Append(@, "flush")], o)

\* getOrCreateState
GetOrCreateState(t) ==
  IF t.mapped # 0 THEN t
  ELSE [states |-> Append(t.states, NewState), mapped |-> Len(t.states) + 1]

\* handleAssistant, handleError: state.pendingHtml += ...
HandleAssistant(t, text) ==
  [GetOrCreateState(t) EXCEPT !.states[GetOrCreateState(t).mapped].pendingHtml
                                = Append(@, text)]

\* handleDone: the timer is stopped, the final flush scheduled, the cleanup chained on it
HandleDone(t) ==
  IF t.mapped = 0 THEN t
  ELSE Settle([t EXCEPT !.states[t.mapped].flushTimer = FALSE,
                        !.states[t.mapped].chain = @ \o <<"flush", "cleanup">>],
              t.mapped)

Transport == [states |-> tgStates, mapped |-> tgMapped]

\* receiveLoop handles an assistant or error text
TgText ==
  /\ tgReceived < MaxTexts
  /\ tgMapped # 0 \/ Len(tgStates) < MaxStates
  /\ tgReceived' = tgReceived + 1
  /\ tgStates' = HandleAssistant(Transport, tgReceived + 1).states
  /\ tgMapped' = HandleAssistant(Transport, tgReceived + 1).mapped
  /\ UNCHANGED <<tgDones, tgSent, orchVars, chanVars, textVars, storeVars, runnerVars,
                 chunkVars, startVars, cliVars>>

\* receiveLoop handles a `done`
TgDone ==
  /\ tgDones < MaxDones
  /\ tgMapped # 0 => Len(tgStates[tgMapped].chain) + 2 <= MaxChain
  /\ tgDones' = tgDones + 1
  /\ tgStates' = HandleDone(Transport).states
  /\ tgMapped' = HandleDone(Transport).mapped
  /\ UNCHANGED <<tgReceived, tgSent, orchVars, chanVars, textVars, storeVars,
                 runnerVars, chunkVars, startVars, cliVars>>

\* the flush timer of state o fires: scheduleFlush(threadId, state). A flush that
\* finds nothing pending changes nothing, so the timer is followed only when
\* something is pending.
TgTimer(o) ==
  /\ o \in DOMAIN tgStates
  /\ tgStates[o].flushTimer
  /\ tgStates[o].pendingHtml # <<>>
  /\ Len(tgStates[o].chain) < MaxChain
  /\ tgStates' = ScheduleFlush(Transport, o).states
  /\ tgMapped' = ScheduleFlush(Transport, o).mapped
  /\ UNCHANGED <<tgReceived, tgDones, tgSent, orchVars, chanVars, textVars, storeVars,
                 runnerVars, chunkVars, startVars, cliVars>>

\* the API call of state o's flush returns: what it sent is in Telegram, and the
\* callbacks chained after it run
TgApiReturns(o) ==
  /\ o \in DOMAIN tgStates
  /\ tgStates[o].sending # <<>>
  /\ tgSent' = tgSent \o tgStates[o].sending
  /\ LET t == Settle([Transport EXCEPT !.states[o].sending = <<>>,
                                       !.states[o].chain = Tail(@)], o)
     IN tgStates' = t.states /\ tgMapped' = t.mapped
  /\ UNCHANGED <<tgReceived, tgDones, orchVars, chanVars, textVars, storeVars,
                 runnerVars, chunkVars, startVars, cliVars>>

NextTg ==
  \/ TgText
  \/ TgDone
  \/ \E o \in 1..MaxStates : TgTimer(o)
  \/ \E o \in 1..MaxStates : TgApiReturns(o)

\* API calls return and timers fire
SpecTg ==
  /\ Init /\ [][NextTg]_vars
  /\ \A o \in 1..MaxStates : WF_vars(TgTimer(o)) /\ WF_vars(TgApiReturns(o))

\* ================================================================ properties
Count(sq, x) == Cardinality({i \in DOMAIN sq : sq[i] = x})
Last(sq) == sq[Len(sq)]

\* the Agent.run invocations of session s that have started and not returned
InFlight(s) == {c \in calls : c.req.sid = s}

\* the observed session's last user text was taken up as a turn, and its handling is
\* over without having gone into review
TurnOver == seg = "turn" /\ turnOf[watch] # 0 /\ InFlight(watch) = {}

\* user text m is being sent in this step, on a thread that has a session
Arrives(m) ==
  sentTo[m] = "-" /\ sentTo'[m] # "-" /\ sentAs'[m] = "user" /\ HasSession(sentTo'[m])
Target(m) == SessionOfThread(sentTo'[m])

\* ---- C1
\* C1: every session has, at every instant, at most one Agent.run invocation (turn,
\* reviewer or coder, counted together) that has started and not yet returned.
C1_AtMostOneRun == \A s \in Sessions : Cardinality(InFlight(s)) <= 1

\* a reviewer invocation is in flight and a user text for its thread got the busy notice
C1_Witness ==
  \E c \in calls, m \in MsgIds :
    c.req.kind = "reviewer" /\ sentTo[m] = c.req.thread /\ busy[m] = 1

\* ---- C2
\* C2: once a turn has been handled, whatever its outcome, the messages sent for it
\* contain exactly one `done`, and it is the last of them.
C2_ExactlyOneDoneLast ==
  TurnOver => Count(out, "done") = 1 /\ Last(out) = "done"

C4_CaughtAtBoundary ==
  (thrown = "turn" /\ InFlight(watch) = {})
  => /\ ~escaped
     /\ Len(out) >= 2
     /\ out[Len(out) - 1] = "done"
     /\ Last(out) = "notice:error"
     /\ ~(sessionStates[watch].exists /\ sessionStates[watch].running)

\* ---- C5
\* the step that starts a turn's invocation leaves a stored id behind, and for a
\* session that had none it is the fresh id the request carries as newSessionId
PersistedBeforeRun ==
  \A c \in calls' \ calls :
    c.req.kind = "turn"
    => /\ store'[c.req.sid].agentSessionId # Null
       /\ store[c.req.sid].agentSessionId = Null
          => /\ c.req.newSessionId # Null
             /\ c.req.newSessionId = store'[c.req.sid].agentSessionId

StoredWhileInFlight ==
  \A c \in calls : c.req.kind = "turn" => store[c.req.sid].agentSessionId # Null

C6_ResumeIffStored ==
  [][\A c \in calls' \ calls :
       c.req.kind = "turn"
       => /\ ResumeFlag(c.req) <=> store[c.req.sid].agentSessionId # Null
          /\ store[c.req.sid].agentSessionId = Null
             => c.req.agentSessionId = Null /\ c.req.newSessionId # Null]_vars

\* ---- C7
Asked(sq) == \E i \in DOMAIN sq : sq[i] = "question"

\* the next user text for a session that awaits an answer is accepted, and its
\* request resumes the stored id
ResumesAfterQuestion ==
  \A m \in MsgIds :
    (/\ Arrives(m)
     /\ sessionStates[Target(m)].exists
     /\ sessionStates[Target(m)].awaitingAnswer
     /\ ~sessionStates[Target(m)].running
     /\ store[Target(m)].agentSessionId # Null)
    => /\ busy'[m] = 0
       /\ turnOf'[Target(m)] = m
       /\ \A c \in calls' \ calls :
            /\ c.req.sid = Target(m)
            /\ c.req.prompt = m
            /\ c.req.agentSessionId = store[Target(m)].agentSessionId
            /\ c.req.newSessionId = Null

RECURSIVE Returned(_)
\* the items the receive() calls of a log returned, in the order of the calls
Returned(log) == IF log = <<>> THEN <<>> ELSE Head(log).val \o Returned(Tail(log))

\* C8: in each direction, what the receive() calls have returned is, in order, a
\* prefix of what the other endpoint passed to send(); the rest is in the queue (no
\* item lost, none returned twice); and every item returned was sent by the other
\* endpoint.
C8_Fifo ==
  \A e \in Endpoints :
    LET d == RecvDir(e)
    IN /\ delivered[d] \o chan[d].queue = sentLog[d]
       /\ Returned(recvLog[d]) = delivered[d]
       /\ \A i \in DOMAIN delivered[d] : delivered[d][i].by # e

\* one direction has delivered two items, the first to a receive() that waited, and
\* the other direction has delivered one as well
C8_Witness ==
  \E d \in Dirs :
    /\ Len(delivered[d]) = 2
    /\ recvLog[d][1].waited
    /\ \E d2 \in Dirs \ {d} : delivered[d2] # <<>>

\* ---- C9
\* in direction d the k-th receive() is unresolved while fewer than k items were
\* sent, and holds the k-th item from then on
ResolvedInTurn(d) ==
  \A k \in DOMAIN recvLog[d] :
    recvLog[d][k].val = IF Len(sentLog[d]) >= k THEN <<sentLog[d][k]>> ELSE <<>>

\* C9 as stated: a receive() on an empty queue stays unresolved until the next send()
\* and resolves with that item; every receive() issued is resolved once enough items
\* have been sent.
C9_EveryReceiveResolved == \A d \in Dirs : ResolvedInTurn(d)

\* C9, amended: the same, for a direction in which no receive() was issued while
\* another was still unresolved.
C9_SoleReceiverResolved == \A d \in Dirs : ~overlap[d] => ResolvedInTurn(d)

\* a receive() waited on an empty queue and a later send() resolved it
C9_Witness ==
  \E d \in Dirs : ~overlap[d] /\ \E k \in DOMAIN recvLog[d] :
    recvLog[d][k].waited /\ recvLog[d][k].val # <<>>

\* ---- C10
\* C10: once every assistant message begun has been closed by its assistant event,
\* the text given to onText, concatenated, is the agent's response: nothing twice,
\* nothing dropped.
C10_ForwardedExactlyOnce == pending = <<>> => forwarded = full

\* ---- C11
\* session s is Idle: no invocation in flight, and no state entry that says running,
\* awaitingAnswer or review.active
Idle(s) ==
  /\ InFlight(s) = {}
  /\ sessionStates[s].exists
     => /\ ~sessionStates[s].running
        /\ ~sessionStates[s].awaitingAnswer
        /\ ~(sessionStates[s].review.set /\ sessionStates[s].review.active)

\* the observed session's turn went into review and the reviewer of round 1 returned
\* a text with the approval marker
ApprovedInRound1 ==
  Len(runs) >= 2 /\ runs[2].kind = "reviewer" /\ runs[2].verdict = "approved"

\* removeWorktree was called once, keeping the branch; the success notice was sent;
\* the reviewer's was the last invocation; the session is Idle
MergedAndCleaned ==
  /\ removals = <<FALSE>>
  /\ Count(out, "notice:merged") = 1
  /\ Len(runs) = 2
  /\ Idle(watch)

FeedbackToTheEnd ==
  /\ Len(runs) >= 2 * MaxRounds
  /\ thrown = "none"
  /\ \A i \in 1..(MaxRounds - 1) :
       /\ runs[2 * i].kind = "reviewer" /\ runs[2 * i].verdict = "feedback"
       /\ runs[2 * i + 1].kind = "coder" /\ ~runs[2 * i + 1].questionAsked
  /\ runs[2 * MaxRounds].kind = "reviewer"
  /\ runs[2 * MaxRounds].verdict \in {"feedback", "none"}

\* C12: if the reviewer gives feedback on every round before the last and feedback or
\* no marker on the last, with no coder question and no error, then exactly maxRounds
\* reviewer and maxRounds - 1 coder invocations occur, removeWorktree is never called,
\* the not-merged notice is sent exactly once, and the session ends Idle. The notice
\* is the last thing a pipeline sends: once it is out, nothing is in flight.
C12_MaxRoundsLeavesWorktree ==
  /\ FeedbackToTheEnd
     => /\ Len(runs) = 2 * MaxRounds
        /\ removals = <<>>
        /\ Count(out, "notice:max_rounds") = 1
        /\ Idle(watch)
  /\ Count(out, "notice:max_rounds") >= 1
     => Count(out, "notice:max_rounds") = 1 /\ InFlight(watch) = {}

\* the last round's reviewer gave feedback again: the pipeline ended with the
\* not-merged notice, the worktree in place
C12_Witness ==
  /\ FeedbackToTheEnd
  /\ runs[2 * MaxRounds].verdict = "feedback"
  /\ Last(out) = "notice:max_rounds"
  /\ removals = <<>>
  /\ worktreeDir[watch]
  /\ ~sessionStates[watch].exists

\* ---- C13
\* a user text for the observed session's thread that arrives after its pipeline
\* threw is taken up as a turn
AcceptedAfterFailure ==
  \A m \in MsgIds :
    (Arrives(m) /\ Target(m) = watch /\ thrown = "pipeline")
    => busy'[m] = 0 /\ turnOf'[watch] = m

\* C13: if anything throws inside the review pipeline (a reviewer or coder invocation,
\* a session-store call; the worktree calls catch their own errors), the pipeline ends
\* with an error notice as the last message, no further reviewer or coder invocation
\* of that pipeline occurs, and the session is left not running with review.active
\* false; nothing reaches the dispatch loop, and the session's next user text is
\* accepted.
C13_PipelineFailureEndsPipeline ==
  /\ [](thrown = "pipeline"
        => /\ InFlight(watch) = {}
           /\ out # <<>>
           /\ Last(out) \in {"notice:pipeline_error", "notice:error"}
           /\ sessionStates[watch].exists
              => /\ ~sessionStates[watch].running
                 /\ ~(sessionStates[watch].review.set
                      /\ sessionStates[watch].review.active))
  /\ [][AcceptedAfterFailure]_vars

\* the coder's invocation threw: the pipeline ended with its error notice, and no
\* state entry is left
C13_Witness ==
  /\ thrown = "pipeline"
  /\ Last(runs) = ThrewRecord("coder")
  /\ Last(out) = "notice:pipeline_error"
  /\ InFlight(watch) = {}
  /\ ~sessionStates[watch].exists

\* ---- C14
\* C14: every review-pipeline round delivers its terminal `done`: once a reviewer or
\* coder invocation of the observed session has ended, by returning or by throwing,
\* the messages sent since the round's notice contain a `done`.
C14_EveryRoundSendsDone ==
  (seg \in {"reviewer", "coder"} /\ InFlight(watch) = {}) => Count(out, "done") >= 1

\* ---- C15
\* the totals of record `after` are those of `before` plus what the run of record
\* rec reported
Grown(before, after, rec) ==
  /\ after.totalUsage.input_tokens
       = before.totalUsage.input_tokens + rec.usage.input_tokens
  /\ after.totalUsage.output_tokens
       = before.totalUsage.output_tokens + rec.usage.output_tokens
  /\ OrZero(after.totalUsage.cache_read_input_tokens)
       = OrZero(before.totalUsage.cache_read_input_tokens)
         + OrZero(rec.usage.cache_read_input_tokens)
  /\ OrZero(after.totalUsage.cache_creation_input_tokens)
       = OrZero(before.totalUsage.cache_creation_input_tokens)
         + OrZero(rec.usage.cache_creation_input_tokens)
  /\ after.totalDurationMs = before.totalDurationMs + rec.durationMs
  /\ after.totalTurns = before.totalTurns + rec.numTurns

\* in this step the observed session's turn returns, without a question
TurnReturnsNoQuestion ==
  /\ runs = <<>> /\ Len(runs') = 1
  /\ runs'[1].verdict # "threw"
  /\ ~runs'[1].questionAsked

\* in this step a reviewer is invoked for the observed session
ReviewerStarts ==
  \E c \in calls' \ calls : c.req.sid = watch /\ c.req.kind = "reviewer"

\* the session has a worktree and the turn's result text holds the ready marker
ReadyInWorktree == HasWorktree(watch) /\ runs'[1].verdict = "ready"

CoderAsked ==
  Len(runs) >= 3 /\ Last(runs).kind = "coder" /\ Last(runs).questionAsked

\* after the coder's question nothing of the pipeline is in flight and the session is
\* neither running nor in active review
PausedByCoder ==
  /\ InFlight(watch) = {}
  /\ sessionStates[watch].exists
     => /\ ~sessionStates[watch].running
        /\ ~(sessionStates[watch].review.set /\ sessionStates[watch].review.active)

AwaitsAnswer == sessionStates[watch].exists /\ sessionStates[watch].awaitingAnswer

\* the next user text for the session is taken up, as a turn of its own
AnswerStartsTurn ==
  \A m \in MsgIds :
    (Arrives(m) /\ Target(m) = watch /\ CoderAsked)
    => /\ busy'[m] = 0
       /\ turnOf'[watch] = m
       /\ \A c \in calls' \ calls :
            c.req.sid = watch => c.req.kind = "turn" /\ c.req.prompt = m

\* in this step the turn that answers the coder's question returns
AnswerTurnReturns ==
  answering /\ runs = <<>> /\ Len(runs') = 1 /\ runs'[1].verdict # "threw"

C17_ReviewerFreshCoderResumes ==
  [][\A c \in calls' \ calls :
       /\ c.req.kind = "reviewer"
          => /\ c.req.agentSessionId = Null
             /\ c.req.cwd = Worktree(c.req.sid).repoPath
       /\ c.req.kind = "coder"
          => /\ c.req.agentSessionId = store'[c.req.sid].agentSessionId
             /\ c.req.cwd = Worktree(c.req.sid).worktreePath]_vars

\* a coder invocation is in flight that resumes the stored agent session, in the
\* worktree
C17_Witness ==
  \E c \in calls :
    /\ c.req.kind = "coder"
    /\ c.req.agentSessionId # Null
    /\ c.req.agentSessionId = store[c.req.sid].agentSessionId
    /\ c.req.cwd = Worktree(c.req.sid).worktreePath

\* ---- C18
\* the cumulative totals of a session record
Totals(sess) == <<sess.totalUsage, sess.totalDurationMs, sess.totalTurns>>

\* in this step an invocation of the observed session ends
RunEnds == Len(runs') > Len(runs)

\* the step that ends an invocation of the observed session adds what that
\* invocation reported, and that alone, to the session's totals, and leaves the
\* totals of every other session as they were
EachResultAccrues ==
  RunEnds
  => /\ Grown(store[watch], store'[watch], Last(runs'))
     /\ \A s \in Sessions \ {watch} : Totals(store'[s]) = Totals(store[s])

\* the observed session's pipeline is under way
InReview == seg \in {"reviewer", "coder"} /\ InFlight(watch) # {}

\* C18 as stated: after a pipeline in which k reviewer and j coder invocations
\* returned, the session's totals have grown by exactly the sum of those results'
\* usage, and no other session's totals changed: each returning invocation adds its
\* usage, and nothing else touches the session's totals while the pipeline runs.
C18_PipelineUsageAccrues ==
  /\ [][EachResultAccrues]_vars
  /\ [][InReview /\ ~RunEnds
        => Totals(store'[watch]) = Totals(store[watch])]_vars

\* C18, amended: each returning invocation adds its usage to the session's totals and
\* to no other session's; while the pipeline runs nothing else touches the totals,
\* except a /reset of the session, which sets them to zero.
C18_EachResultAccrues ==
  /\ [][EachResultAccrues]_vars
  /\ [][InReview /\ ~RunEnds /\ resets' = resets
        => Totals(store'[watch]) = Totals(store[watch])]_vars

\* turn, reviewer and coder have each returned a result with usage, no /reset came
\* in, and the session's totals hold the three of them
C18_Witness ==
  /\ Len(runs) = 3
  /\ Last(runs).kind = "coder"
  /\ \A i \in 1..3 : runs[i].numTurns = 1
  /\ resets = 0
  /\ store[watch].totalTurns = 3
  /\ store[watch].totalUsage.cache_creation_input_tokens = 12
  /\ store[watch].totalDurationMs = 15

\* ---- C19
\* C19: resetSession on an existing session sets its agent-session-id to null and all
\* its cumulative usage counters (tokens, duration, turns; a cache counter the record
\* does not hold reads as zero) to zero, leaves its id, thread id and project path and
\* every other session's record unchanged, and returns true; on an unknown session it
\* returns false and changes nothing.
C19_ResetClearsIdAndUsage ==
  lastOp.op = "resetSession"
  => IF lastOp.id \in Sessions
     THEN LET now == store[lastOp.id]
              was == lastOp.before[lastOp.id]
          IN /\ lastOp.ret
             /\ now.agentSessionId = Null
             /\ now.totalUsage.input_tokens = 0
             /\ now.totalUsage.output_tokens = 0
             /\ OrZero(now.totalUsage.cache_read_input_tokens) = 0
             /\ OrZero(now.totalUsage.cache_creation_input_tokens) = 0
             /\ now.totalDurationMs = 0
             /\ now.totalTurns = 0
             /\ now.id = was.id
             /\ now.threadId = was.threadId
             /\ now.projectPath = was.projectPath
             /\ \A s \in Sessions \ {lastOp.id} : store[s] = lastOp.before[s]
     ELSE ~lastOp.ret /\ store = lastOp.before

\* a session that had an agent-session-id and usage in its totals was reset
C19_Witness ==
  /\ lastOp.op = "resetSession"
  /\ lastOp.id \in Sessions
  /\ lastOp.before[lastOp.id].agentSessionId # Null
  /\ lastOp.before[lastOp.id].totalTurns > 0
  /\ store[lastOp.id].totalTurns = 0

\* ---- C20
\* C20: whenever no invocation is in flight for a session, the Orchestrator holds a
\* SessionState entry for it if and only if awaitingAnswer is true.
C20_EntryIffAwaiting ==
  \A s \in Sessions :
    InFlight(s) = {} => (sessionStates[s].exists <=> sessionStates[s].awaitingAnswer)

\* ---- C21
\* user text m arrives for an Idle session while another session has an invocation
\* in flight
ArrivesBesideRun(m) ==
  /\ Arrives(m)
  /\ Idle(Target(m))
  /\ \E a \in Sessions \ {Target(m)} : InFlight(a) # {}

\* in this step an invocation with prompt m is started for the session of text m
TurnStarts(m) ==
  \E c \in calls' \ calls :
    c.req.sid = Target(m) /\ c.req.kind = "turn" /\ c.req.prompt = m

ErrorTexts(sq) == {i \in DOMAIN sq : sq[i].type = "text"}
Dones(sq) == {i \in DOMAIN sq : sq[i].type = "done"}
FailedToStart == proc \in {"failing", "errored", "rejected"} \/ exitCode = SpawnErrno
ExitedBadly(r) == exitCode \notin {Absent, 0} /\ ~r.result.set
\* C22: a run that has ended has sent an error text exactly if the agent process
\* failed to start or exited with a nonzero code without a result event (none on
\* exit code 0, none once a result event was seen), and it has sent exactly one
\* `done`, as its last message, after every error text.
C22_ErrorTextIffFailed ==
  \A c \in Verbosities :
    rs[c].returned
    => /\ ErrorTexts(rs[c].sent) # {} <=> (FailedToStart \/ ExitedBadly(rs[c]))
       /\ Cardinality(Dones(rs[c].sent)) = 1
       /\ Last(rs[c].sent).type = "done"
       /\ \A i \in ErrorTexts(rs[c].sent) : \A j \in Dones(rs[c].sent) : i < j

\* ---- C23
\* the stream so far, handled as one chunk
Unsplit == OnData([buffer |-> <<>>, parsed |-> <<>>], written)
\* C23: however the agent's stdout is split into chunks, the lines handed to the
\* parser are those of the unsplit stream: before the close the complete lines, each
\* once and in order and none before its newline, and after the close also the
\* unterminated last line, once.
C23_SplitDoesNotMatter ==
  parsed = IF closed THEN OnClose(Unsplit).parsed ELSE Unsplit.parsed

\* ---- C24
\* a line that is not JSON, or whose handler throws (a JSON null for an event or
\* for a content block)
BadLine(line) ==
  \/ line.type \in {"nonjson", "jsonnull"}
  \/ /\ line.type = "assistant"
     /\ \E i \in DOMAIN line.content : line.content[i] = NullBlock
BadSeen == \E i \in DOMAIN handled : BadLine(handled[i])
Reporting ==
  {i \in DOMAIN handled :
     handled[i].type \in {"system", "result"} /\ handled[i].session_id # Null}
FirstReportedId ==
  IF Reporting = {} THEN Null
  ELSE handled[CHOOSE i \in Reporting : \A j \in Reporting : i <= j].session_id
ResultLines == {i \in DOMAIN handled : handled[i].type = "result"}
LastResult == CHOOSE i \in ResultLines : \A j \in ResultLines : j <= i
SkipsBadLine ==
  \A line \in StdoutLines :
    (BadLine(line) /\ proc = "running" /\ proc' = "running"
       /\ handled' = Append(handled, line))
    => \A c \in Verbosities :
         /\ ~rs'[c].threw
         /\ ~rs'[c].resolved
         /\ rs'[c].result = rs[c].result
         /\ rs'[c].agentSessionId = rs[c].agentSessionId
         /\ SubSeq(rs'[c].sent, 1, Len(rs[c].sent)) = rs[c].sent
ReturnsAllTheSame ==
  \A c \in Verbosities :
    (BadSeen /\ rs[c].returned)
    => /\ Last(rs[c].sent).type = "done"
       /\ rs[c].ret.agentSessionId = FirstReportedId
       /\ rs[c].ret.resultText = (IF ResultLines = {} THEN "-" ELSE "text")
       /\ rs[c].ret.numTurns
            = (IF ResultLines = {} THEN 0 ELSE OrZero(handled[LastResult].n))
\* C24: a stdout line that is not valid JSON, or whose handler throws, does not end
\* the run: no exception leaves handleLine, the promise stays unsettled, the result
\* and the session id captured from earlier lines are kept and nothing sent is taken
\* back; the lines after it are handled as ever, so the run returns the session id
\* first reported and the last result event's values, and ends by sending `done`.
C24_BadLineSkipped == [][SkipsBadLine]_vars /\ []ReturnsAllTheSame
\* a run that captured a session id, then met a bad line, then a result event, and
\* returned both
C24_Witness ==
  \E c \in Verbosities :
    /\ rs[c].returned
    /\ Len(handled) = 3
    /\ handled[1].type = "system" /\ BadLine(handled[2]) /\ handled[3].type = "result"
    /\ rs[c].ret.agentSessionId = <<"agent", 1>>
    /\ rs[c].ret.resultText = "text"

\* ---- C29
\* the blocks of an assistant event its handler reaches: those before a JSON null
SeenBlocks(content) ==
  LET nulls == {i \in DOMAIN content : content[i] = NullBlock}
  IN  IF nulls = {} THEN content
      ELSE SubSeq(content, 1, (CHOOSE i \in nulls : \A j \in nulls : i <= j) - 1)
Invocations(blocks) ==
  {i \in DOMAIN blocks : blocks[i].type = "tool_use" /\ blocks[i].name # AskUserQuestion}
Questions(blocks) ==
  {i \in DOMAIN blocks : blocks[i].type = "tool_use" /\ blocks[i].name = AskUserQuestion}
\* the name of the most recent non-question tool invocation among the first k lines
RECURSIVE Remembered(_)
Remembered(k) ==
  IF k = 0 THEN "tool"
  ELSE IF handled[k].type = "assistant"
            /\ Invocations(SeenBlocks(handled[k].content)) # {}
         THEN LET blocks == SeenBlocks(handled[k].content)
                  last == CHOOSE i \in Invocations(blocks) :
                            \A j \in Invocations(blocks) : j <= i
              IN  blocks[last].name
       ELSE Remembered(k - 1)
\* the tool_result messages the first k lines call for
RECURSIVE ExpectedResults(_)
ExpectedResults(k) ==
  IF k = 0 THEN <<>>
  ELSE ExpectedResults(k - 1) \o
       (IF handled[k].type = "user"
          THEN [j \in DOMAIN handled[k].content |->
                  [type |-> "tool_result", name |-> Remembered(k - 1),
                   isError |-> IF "is_error" \in DOMAIN handled[k].content[j]
                                 THEN handled[k].content[j].is_error ELSE FALSE]]
        ELSE <<>>)
RECURSIVE QuestionsAsked(_)
QuestionsAsked(k) ==
  IF k = 0 THEN 0
  ELSE QuestionsAsked(k - 1) +
       (IF handled[k].type = "assistant"
          THEN Cardinality(Questions(SeenBlocks(handled[k].content))) ELSE 0)
IsToolResult(m) == m.type = "tool_result"
IsQuestion(m) == m.type = "question"
\* C29: with tool messages forwarded, the tool_result messages of a run are, in
\* order, one per tool_result block, each with the name of the most recent
\* non-question tool invocation seen before it ("tool" if none) and isError equal to
\* the block's is_error (false if absent); every ask-user-question invocation is
\* forwarded as one `question` and never as a `tool_call`.
C29_ToolResultNamesLastTool ==
  \A c \in Verbosities :
    /\ Verbosity(c) >= 2
       => SelectSeq(rs[c].sent, IsToolResult) = ExpectedResults(Len(handled))
    /\ Len(SelectSeq(rs[c].sent, IsQuestion)) = QuestionsAsked(Len(handled))
    /\ \A i \in DOMAIN rs[c].sent :
         rs[c].sent[i].type = "tool_call" => rs[c].sent[i].name # AskUserQuestion
\* a tool was invoked, then a question asked, then a tool result arrived and was
\* sent under the tool's name
C29_Witness ==
  \E c \in Verbosities : \E i, j, k \in DOMAIN rs[c].sent :
    /\ i < j /\ j < k
    /\ rs[c].sent[i].type = "tool_call"
    /\ rs[c].sent[j].type = "question"
    /\ rs[c].sent[k].type = "tool_result"
    /\ rs[c].sent[k].name = rs[c].sent[i].name

\* ---- C30
IsToolMessage(m) == m.type \in {"tool_call", "tool_result"}
NotToolMessage(m) == ~IsToolMessage(m)
\* C30: a run with verbosity below 2 sends no tool_call and no tool_result; its
\* other messages (assistant, question, error, done), in their order, and what it
\* returns are those of the same run with verbosity 2.
C30_LowVerbosityDropsToolMessagesOnly ==
  \A c \in {v \in Verbosities : v # Absent /\ v < 2} :
    /\ SelectSeq(rs[c].sent, IsToolMessage) = <<>>
    /\ rs[c].sent = SelectSeq(rs[2].sent, NotToolMessage)
    /\ rs[c].returned = rs[2].returned
    /\ rs[c].rejected = rs[2].rejected
    /\ rs[c].ret = rs[2].ret
\* a run that returned after a tool call and its result, which verbosity 2 forwarded
C30_Witness ==
  /\ rs[0].returned
  /\ rs[0].ret.resultText = "text"
  /\ \E i, j \in DOMAIN rs[2].sent :
       rs[2].sent[i].type = "tool_call" /\ rs[2].sent[j].type = "tool_result"
  /\ Len(rs[0].sent) + 2 = Len(rs[2].sent)

\* ---- C28
\* the rule of C28 for the text blocks of one assistant event, block by block: with
\* the counter positive, the part of the block already streamed (as much of it as the
\* counter covers) is taken off the counter and the rest of the block is forwarded
RECURSIVE RemainderForwarded(_, _)
RemainderForwarded(blocks, r) ==
  IF blocks = <<>> THEN r
  ELSE LET block == Head(blocks)
           matched == IF r.stl < Len(block) THEN r.stl ELSE Len(block)
       IN  RemainderForwarded(Tail(blocks),
             [stl |-> r.stl - matched,
              fwd |-> r.fwd \o SubSeq(block, matched + 1, Len(block))])
\* C28: when an assistant event brings final text blocks while the streamed-length
\* counter is positive, the counter goes down by the length of each block's already
\* streamed part and exactly the rest of the block is forwarded: no block longer
\* than what was streamed is dropped whole, and the counter is not cleared beyond
\* the matched length.
C28_RemainderForwarded ==
  [][(pending # <<>> /\ pending' = <<>> /\ streamedTextLength > 0)
     => LET r == RemainderForwarded(pending, [stl |-> streamedTextLength,
                                              fwd |-> forwarded])
        IN  streamedTextLength' = r.stl /\ forwarded' = r.fwd]_vars

\* ---- C27
\* the reviewer of a round before the last returns, for the observed session, a text
\* with neither marker, and nothing throws in the step
UnmarkedBeforeLastRound ==
  /\ \E c \in calls \ calls' :
       c.req.sid = watch /\ c.req.kind = "reviewer" /\ c.req.round < MaxRounds
  /\ Len(runs') = Len(runs) + 1
  /\ Last(runs').kind = "reviewer"
  /\ Last(runs').verdict = "none"
  /\ faults' = faults
CoderStarts ==
  \E c \in calls' \ calls : c.req.sid = watch /\ c.req.kind = "coder"
\* C27: on a round before the last, reviewer output with no recognized marker is
\* handled like feedback: the feedback notice is sent and the coder is invoked, and
\* no reviewer round starts before the coder has run.
C27_UnmarkedGoesToCoder ==
  [][UnmarkedBeforeLastRound
     => /\ CoderStarts
        /\ ~ReviewerStarts
        /\ Count(out', "notice:feedback") = 1]_vars

\* ---- C25
NoSharedThread ==
  \A i, j \in DOMAIN sessions : sessions[i].threadId = sessions[j].threadId => i = j
\* a session start succeeds in this step
StartSucceeds ==
  attempts' = attempts + 1 /\ attempt'.failed = "none" /\ attempt'.kind # "reconcile"
\* C25: whatever session starts, resets, deletes and restarts have happened, no two
\* sessions of the store have the same thread identifier, and after a session start
\* getByThread resolves the thread to the session that start created.
C25_ThreadsUnique ==
  /\ []NoSharedThread
  /\ [][StartSucceeds
        => sessions'[GetByThread(sessions', attempt'.threadId)].id = attempt'.id]_vars

\* ---- C26
\* a step of a session start fails in this step
StartFails == attempts' = attempts + 1 /\ attempt'.failed # "none"
\* C26: when a step of a session start fails (worktree, forum topic, session
\* record), the failure is reported and nothing the attempt made remains: the store
\* and sessions.json hold no record of it (an existing session is as it was) and the
\* worktree it created is gone.
C26_FailedStartLeavesNothing ==
  [][StartFails
     => /\ attempt'.reported
        /\ file' = file
        /\ up' # "down" => sessions' = sessions
        /\ worktrees' = worktrees]_vars

\* ------------------------------------------------------------------- C31
OwnDone(text, item) ==
  /\ item.threadId = sentTo[text]
  /\ item.turn = text
  /\ item.from \in {"turn", "orchestrator"}

\* C31: sendAndWait returns only on the `done` that ends the turn its own user text
\* started on its thread: not on a `done` left by an earlier turn, sent by a run of
\* the review pipeline, or sent for another thread.
C31_ReturnsOnOwnDone == cliEnded.text # 0 => OwnDone(cliEnded.text, cliEnded.by)

\* ------------------------------------------------------------------- C32
\* every agent invocation eventually returns or throws
SpecFair ==
  Spec /\ \A s \in Sessions : WF_vars(\E c \in InFlight(s) : AgentReturn(c) \/ AgentThrow(c))

\* C32: provided every agent invocation eventually returns or throws, every session
\* that becomes Running eventually becomes not Running, also when a session-store
\* call made during the turn throws.
C32_RunningEnds ==
  \A s \in Sessions :
    (sessionStates[s].exists /\ sessionStates[s].running)
      ~> ~(sessionStates[s].exists /\ sessionStates[s].running)

\* ------------------------------------------------------------------- C33
InPipeline(s) ==
  sessionStates[s].exists /\ sessionStates[s].review.set /\ sessionStates[s].review.active

ActiveIsRunning ==
  \A s \in Sessions : InPipeline(s) => sessionStates[s].running

\* a user text that arrives for a session in its review pipeline gets the busy
\* notice, and neither a turn nor an agent invocation is started for it
RejectedInPipeline ==
  \A m \in MsgIds :
    Arrives(m) /\ InPipeline(Target(m))
      => /\ busy'[m] = busy[m] + 1
         /\ turnOf' = turnOf
         /\ calls' = calls
         /\ sessionStates' = sessionStates

TurnAsksAndIsReady ==
  /\ HasWorktree(watch)
  /\ runs = <<>> /\ Len(runs') = 1
  /\ runs'[1].kind = "turn"
  /\ runs'[1].questionAsked
  /\ runs'[1].verdict = "ready"

NothingStarts == InFlight(watch)' = {} /\ ~ReviewerStarts

ApprovalRemovesWorktree ==
  /\ RunEnds
  /\ Last(runs').kind = "reviewer" /\ Last(runs').verdict = "approved"
  /\ Len(removals') > Len(removals)

RecordKept ==
  /\ store'[watch].worktree = store[watch].worktree
  /\ store'[watch].projectPath = store[watch].projectPath
  /\ store'[watch].agentSessionId = store[watch].agentSessionId

\* a turn is started for the observed session, whose worktree has been removed
TurnStartsWithoutDirectory ==
  /\ store[watch].worktree # NoWorktree /\ ~worktreeDir[watch]
  /\ \E c \in calls' \ calls : c.req.sid = watch /\ c.req.kind = "turn"

PipelineStarts ==
  /\ RunEnds /\ Last(runs').kind = "turn"
  /\ ReviewerStarts

\* reviewer invocations of the observed session since its turn began
ReviewerRuns ==
  Cardinality({i \in DOMAIN runs : runs[i].kind = "reviewer"})
  + Cardinality({c \in InFlight(watch) : c.req.kind = "reviewer"})

\* C36: the round budget is per pipeline start: every pipeline begins at round 1,
\* also the one started by the turn that answers a question the coder asked in
\* review, and makes at most maxRounds reviewer invocations up to its end.
C36_BudgetPerPipelineStart ==
  /\ [][PipelineStarts
          => \A c \in calls' \ calls :
               c.req.sid = watch => c.req.kind = "reviewer" /\ c.req.round = 1]_vars
  /\ [](ReviewerRuns <= MaxRounds)
  /\ [](\A c \in InFlight(watch) : c.req.kind # "turn" => c.req.round \in 1..MaxRounds)

\* over the life of the session the reviewer is invoked more than maxRounds times:
\* a pipeline was suspended by a question of the coder (so its reviewer had run), and
\* the pipeline started after the answer is in its last round
C36_Witness ==
  /\ answering /\ seg = "reviewer"
  /\ ReviewerRuns = MaxRounds
  /\ \E c \in InFlight(watch) : c.req.kind = "reviewer" /\ c.req.round = MaxRounds

\* ------------------------------------------------------------------- C37
\* message m is being received in this step, and it is no user text or its thread
\* has no session
Ignored(m) ==
  /\ sentTo[m] = "-" /\ sentTo'[m] # "-"
  /\ sentAs'[m] # "user" \/ ~HasSession(sentTo'[m])

\* C37: a message the orchestrator receives whose type is not `user`, or whose
\* threadId matches no session, causes no agent invocation, no outbound message
\* and no change to any SessionState or session record.
C37_IgnoredChangesNothing ==
  [][\A m \in MsgIds :
       Ignored(m) => /\ calls' = calls
                     /\ busy' = busy /\ out' = out
                     /\ sessionStates' = sessionStates
                     /\ store' = store
                     /\ turnOf' = turnOf]_vars

\* a message of another type was received on the observed session's thread and a
\* user text on the thread without a session, and nothing has happened
C37_Witness ==
  /\ \E m \in MsgIds : sentTo[m] = ThreadOf(watch) /\ sentAs[m] = "done"
  /\ \E m \in MsgIds : sentTo[m] = "t0" /\ sentAs[m] = "user"
  /\ calls = {} /\ out = <<>>
  /\ \A s \in Sessions : ~sessionStates[s].exists /\ store[s] = NewSession(s)

\* ------------------------------------------------------------------- C38
\* in this step a turn is started for the observed session, which has a stored id
ResumedTurnStarts ==
  /\ store[watch].agentSessionId # Null
  /\ \E c \in calls' \ calls : c.req.sid = watch /\ c.req.kind = "turn"

\* in this step the run of the observed session's turn returns or throws
TurnRunEnds == RunEnds /\ Last(runs').kind = "turn"

SentToTelegram(n) == \E i \in DOMAIN tgSent : tgSent[i] = n

\* the state in the map is deleted in this step
CleanupRuns == tgMapped # 0 /\ tgMapped' = 0

\* a flush that has not begun is chained on state o
FlushAhead(o) ==
  \E i \in DOMAIN tgStates[o].chain :
    /\ tgStates[o].chain[i] = "flush"
    /\ i > 1 \/ tgStates[o].sending = <<>>

\* C39: with API calls succeeding, every assistant or error text received for a
\* thread is eventually sent to Telegram, also when it arrives after the thread's
\* `done` and before the cleanup; cleanup never deletes a state that still holds
\* unflushed text, and no text is left in a state whose flush timer has been stopped.
C39_EveryTextSent ==
  /\ \A n \in 1..MaxTexts : (tgReceived >= n) ~> SentToTelegram(n)
  /\ [][CleanupRuns => tgStates'[tgMapped].pendingHtml = <<>>]_vars
  /\ [](\A o \in DOMAIN tgStates :
          ~tgStates[o].flushTimer /\ tgStates[o].pendingHtml # <<>> => FlushAhead(o))

\* ------------------------------------------------------------------- C40
\* in direction d a receive() waits only while nothing is queued
WaiterOnlyIfEmpty(d) == chan[d].waiter # 0 => chan[d].queue = <<>>

\* this step is a send() in direction d that finds a receive() waiting
PushFindsWaiter(d) == chan[d].waiter # 0 /\ Len(sentLog'[d]) = Len(sentLog[d]) + 1

\* the item sent in this step went to the waiting receive() and not into the queue
HandedOver(d) ==
  /\ chan'[d].queue = chan[d].queue
  /\ chan'[d].waiter = 0
  /\ recvLog'[d][chan[d].waiter].val = <<sentLog'[d][Len(sentLog'[d])]>>

\* C40: in each direction a pending waiter and a non-empty queue never coexist: after
\* every push or pull the waiter is set only if the queue is empty, and a push that
\* finds a waiter hands the item to it without enqueuing it.
C40_WaiterOrQueue ==
  /\ [](\A d \in Dirs : WaiterOnlyIfEmpty(d))
  /\ [][\A d \in Dirs : PushFindsWaiter(d) => HandedOver(d)]_vars

\* in one direction a push found a waiter and the next receive() waits again, while
\* the other direction has items queued and no waiter
C40_Witness ==
  \E d \in Dirs :
    /\ chan[d].waiter = 2
    /\ recvLog[d][1].waited /\ recvLog[d][1].val # <<>>
    /\ \E d2 \in Dirs \ {d} : chan[d2].queue # <<>> /\ chan[d2].waiter = 0

====
